---- MODULE Spec2Model ----
(***************************************************************************)
(* A model of arazzo-models: the loaders that turn a parsed YAML or JSON   *)
(* tree into the typed Arazzo model, and the serde serialisers that turn   *)
(* the model back into a document tree.                                    *)
(*                                                                         *)
(* A calling program parses a document (the Parse actions), loads an       *)
(* entity from it (the Yaml and Json actions) or builds a model value      *)
(* directly (Construct), serialises it (the Serialize actions), hands the  *)
(* tree to a JSON or YAML writer and parses the text again (the Write      *)
(* actions), and loads it again.                                           *)
(***************************************************************************)
EXTENDS Integers, Sequences, FiniteSets, TLC

VARIABLES
  pc,       \* where the calling program is: "idle", "parsed", "loaded", "serialized",
            \* "compared", "rendered", "payload_serialized", or "aborted"
            \* once it has panicked
  format,   \* "yaml", "json" or "none": the format of the tree in raw
  entity,   \* the entity the caller loads or serialises
  raw,      \* the parsed tree handed to the loader
  loaded,   \* the loader's result (Ok(model) or Err(message)), or the constructed model
  first,    \* the model that was serialised, kept to compare with the reloaded one
  tree,     \* the document tree the serialiser produced
  verdict   \* the outcome of comparing the model held with another one

vars == <<pc, format, entity, raw, loaded, first, tree, verdict>>

-----------------------------------------------------------------------------
(* Bounds of the model.                                                    *)

\* i64 and u64 are modelled with WordBits bits instead of 64.
WordBits == 4
\* Longest array or object built for a nested value.
MaxLen == 2
\* Deepest nesting of arrays and objects in a value.
MaxDepth == 1
\* Most fields of the base description that a generated document changes.
MaxDefects == 2

RECURSIVE Pow2(_)
Pow2(n) == IF n = 0 THEN 1 ELSE 2 * Pow2(n - 1)

I64_MAX == Pow2(WordBits - 1) - 1
I64_MIN == 0 - Pow2(WordBits - 1)
U64_MAX == Pow2(WordBits) - 1

-----------------------------------------------------------------------------
(* Option, Result and Either.                                              *)

None == [some |-> FALSE]
Some(x) == [some |-> TRUE, v |-> x]

Ok(x) == [ok |-> TRUE, v |-> x]
Err(m) == [ok |-> FALSE, err |-> m]

\* A let binding: x is computed once and handed to what follows.
Bind(x, In(_)) == CHOOSE out \in {In(v) : v \in {x}} : TRUE

\* The ? operator: r is computed once; an error ends the function with that
\* error, a value is handed to what follows.
Try(r, Then(_)) ==
  CHOOSE out \in {IF done.ok THEN Then(done.v) ELSE done : done \in {r}} : TRUE

\* either.rs: First holds the literal (A), Second the expression (B).
First(a) == [side |-> "First", a |-> a]
Second(b) == [side |-> "Second", b |-> b]

NoValue == [k |-> "none"]

-----------------------------------------------------------------------------
(* Strings. A string is a TLA+ string; its characters are compared by      *)
(* their byte values, as Ord::cmp on String does.                          *)

\* The characters the model uses, in ascending byte order.
ByteOrder == "$-.0123456789ABCDEFGHIJKLMNOPQRSTUVWXYZ_abcdefghijklmnopqrstuvwxyz"

Byte(c) == CHOOSE i \in 1..Len(ByteOrder) : SubSeq(ByteOrder, i, i) = c

starts_with(s, p) == Len(s) >= Len(p) /\ SubSeq(s, 1, Len(p)) = p

\* str::strip_prefix: the rest of the string if it starts with p.
strip_prefix(s, p) ==
  IF starts_with(s, p) THEN Some(SubSeq(s, Len(p) + 1, Len(s))) ELSE None

RECURSIVE StrLessFrom(_, _, _)
StrLessFrom(a, b, i) ==
  IF i > Len(b) THEN FALSE
  ELSE IF i > Len(a) THEN TRUE
  ELSE IF SubSeq(a, i, i) = SubSeq(b, i, i) THEN StrLessFrom(a, b, i + 1)
  ELSE Byte(SubSeq(a, i, i)) < Byte(SubSeq(b, i, i))

\* Ord::cmp(a, b) = Less
StrLess(a, b) == StrLessFrom(a, b, 1)

bool_to_string(b) == IF b THEN "true" ELSE "false"

-----------------------------------------------------------------------------
(* f64. A finite float is a whole number of tenths; NaN is apart.          *)

Fin(m) == [cls |-> "fin", m |-> m]
NaN == [cls |-> "nan"]

\* f64's PartialEq: NaN equals nothing.
f64_eq(x, y) == x.cls = "fin" /\ y.cls = "fin" /\ x.m = y.m

\* The real texts the model's documents hold, with what str::parse::<f64> gives.
RealTexts == {"1.5", "1.50", "-0.5", "2.0", "abc", ".inf", "nan"}

parse_f64(text) ==
  CASE text = "1.5" -> Ok(Fin(15))
    [] text = "1.50" -> Ok(Fin(15))
    [] text = "-0.5" -> Ok(Fin(0 - 5))
    [] text = "2.0" -> Ok(Fin(20))
    [] text = "nan" -> Ok(NaN)
    [] \E u \in (I64_MAX + 1)..U64_MAX : text = ToString(u) ->
         Ok(Fin(10 * (CHOOSE u \in (I64_MAX + 1)..U64_MAX : text = ToString(u))))
    [] OTHER -> Err("invalid float literal")

Abs(n) == IF n < 0 THEN 0 - n ELSE n

\* Display of a finite f64 (the shortest text that reads back).
f64_to_string(x) ==
  IF x.cls = "nan" THEN "NaN"
  ELSE (IF x.m < 0 THEN "-" ELSE "") \o ToString(Abs(x.m) \div 10)
       \o "." \o ToString(Abs(x.m) % 10)

\* `f as i64`: truncation toward zero, saturating, NaN to 0.
f64_as_i64(x) ==
  IF x.cls = "nan" THEN 0
  ELSE LET t == IF x.m < 0 THEN 0 - (Abs(x.m) \div 10) ELSE x.m \div 10
       IN IF t > I64_MAX THEN I64_MAX ELSE IF t < I64_MIN THEN I64_MIN ELSE t

\* `i as f64`
i64_as_f64(i) == Fin(10 * i)

-----------------------------------------------------------------------------
(* The parsed YAML tree (yaml_rust2::Yaml). A Hash keeps its entries in    *)
(* document order; its keys are Yaml nodes.                                *)

YReal(text) == [k |-> "Real", r |-> text]
YInteger(i) == [k |-> "Integer", i |-> i]
YString(s) == [k |-> "String", s |-> s]
YBoolean(b) == [k |-> "Boolean", b |-> b]
YArray(a) == [k |-> "Array", a |-> a]
YHash(h) == [k |-> "Hash", h |-> h]
YAlias == [k |-> "Alias"]
YNull == [k |-> "Null"]
YBadValue == [k |-> "BadValue"]

YEntry(key, val) == [key |-> key, val |-> val]

yaml_type_name(yaml) == yaml.k

\* Hash::get with a String key: the entry's value, if the key is there.
yaml_hash_get(hash, key) ==
  IF \E i \in 1..Len(hash) : hash[i].key = YString(key)
  THEN Some(hash[CHOOSE i \in 1..Len(hash) : hash[i].key = YString(key)].val)
  ELSE None

-----------------------------------------------------------------------------
(* The parsed JSON tree (serde_json::Value). A Number is a non-negative    *)
(* integer (PosInt, u64), a negative integer (NegInt, i64) or a float.     *)

JNull == [k |-> "Null"]
JBool(b) == [k |-> "Bool", b |-> b]
JPosInt(u) == [k |-> "Number", n |-> [t |-> "PosInt", u |-> u]]
JNegInt(i) == [k |-> "Number", n |-> [t |-> "NegInt", i |-> i]]
JFloat(f) == [k |-> "Number", n |-> [t |-> "Float", f |-> f]]
JString(s) == [k |-> "String", s |-> s]
JArray(a) == [k |-> "Array", a |-> a]
\* o: a function from the keys to the values
JObject(o) == [k |-> "Object", o |-> o]

EmptyMap == [x \in {} |-> NoValue]

\* serde_json::Number::from(i64)
JInt(i) == IF i < 0 THEN JNegInt(i) ELSE JPosInt(i)

as_u64(n) == IF n.t = "PosInt" THEN Some(n.u) ELSE None

as_i64(n) ==
  CASE n.t = "PosInt" -> IF n.u <= I64_MAX THEN Some(n.u) ELSE None
    [] n.t = "NegInt" -> Some(n.i)
    [] OTHER -> None

as_f64(n) ==
  CASE n.t = "PosInt" -> Some(Fin(10 * n.u))
    [] n.t = "NegInt" -> Some(Fin(10 * n.i))
    [] OTHER -> Some(n.f)

number_to_string(n) ==
  CASE n.t = "PosInt" -> ToString(n.u)
    [] n.t = "NegInt" -> ToString(n.i)
    [] OTHER -> f64_to_string(n.f)

json_type_name(json) ==
  CASE json.k = "Bool" -> "Boolean"
    [] OTHER -> json.k

json_map_get(map, key) == IF key \in DOMAIN map THEN Some(map[key]) ELSE None

-----------------------------------------------------------------------------
(* AnyValue (extensions.rs).                                               *)

AnyNull == [k |-> "Null"]
AnyBoolean(b) == [k |-> "Boolean", b |-> b]
AnyInteger(i) == [k |-> "Integer", i |-> i]
AnyUInteger(u) == [k |-> "UInteger", u |-> u]
AnyFloat(f) == [k |-> "Float", f |-> f]
AnyString(s) == [k |-> "String", s |-> s]
AnyArray(a) == [k |-> "Array", a |-> a]
AnyObject(o) == [k |-> "Object", o |-> o]

\* derive(PartialEq) for AnyValue
RECURSIVE AnyEq(_, _)
AnyEq(x, y) ==
  /\ x.k = y.k
  /\ CASE x.k = "Float" -> f64_eq(x.f, y.f)
       [] x.k = "Array" ->
            /\ Len(x.a) = Len(y.a)
            /\ \A i \in 1..Len(x.a) : AnyEq(x.a[i], y.a[i])
       [] x.k = "Object" ->
            /\ DOMAIN x.o = DOMAIN y.o
            /\ \A key \in DOMAIN x.o : AnyEq(x.o[key], y.o[key])
       [] OTHER -> x = y

\* HashMap<String, AnyValue> equality
ExtensionsEq(x, y) ==
  /\ DOMAIN x = DOMAIN y
  /\ \A key \in DOMAIN x : AnyEq(x[key], y[key])

\* The first index whose result is an error, for the `?` in a loop.
FirstErr(rs) == CHOOSE i \in 1..Len(rs) : ~rs[i].ok /\ \A j \in 1..(i - 1) : rs[j].ok

AllOk(rs) == \A i \in 1..Len(rs) : rs[i].ok

yaml_integer_unsigned_first(i) == IF i >= 0 THEN AnyUInteger(i) ELSE AnyInteger(i)

\* AnyValue::Integer(*i) as built by the YAML decoder
yaml_integer(i) == AnyInteger(i)

\* impl TryFrom<&Yaml> for AnyValue
RECURSIVE AnyValue_try_from_yaml(_)
AnyValue_try_from_yaml_skipping(value) ==
  CASE value.k = "Real" ->
         LET p == parse_f64(value.r)
         IN IF p.ok THEN Ok(AnyFloat(p.v)) ELSE Err(p.err)
    [] value.k = "Integer" -> Ok(yaml_integer(value.i))
    [] value.k = "String" -> Ok(AnyString(value.s))
    [] value.k = "Boolean" -> Ok(AnyBoolean(value.b))
    [] value.k = "Array" ->
         LET rs == [i \in 1..Len(value.a) |-> AnyValue_try_from_yaml(value.a[i])]
             kept == SelectSeq(rs, LAMBDA r : r.ok)
         IN Ok(AnyArray([i \in 1..Len(kept) |-> kept[i].v]))
    [] value.k = "Hash" ->
         LET h == value.h
             rs == [i \in 1..Len(h) |->
                     IF h[i].key.k # "String"
                     THEN Err("Only String values can be used for extension keys. Got '"
                              \o yaml_type_name(h[i].key) \o "'")
                     ELSE AnyValue_try_from_yaml(h[i].val)]
         IN IF AllOk(rs)
            THEN Ok(AnyObject([key \in {h[i].key.s : i \in 1..Len(h)} |->
                     rs[CHOOSE i \in 1..Len(h) : h[i].key.s = key].v]))
            ELSE rs[FirstErr(rs)]
    [] value.k = "Null" -> Ok(AnyNull)
    [] OTHER -> Err("Values of '" \o yaml_type_name(value)
                    \o "' can not be used as an extension value")

AnyValue_try_from_yaml(value) ==
  CASE value.k = "Real" ->
         LET p == parse_f64(value.r)
         IN IF p.ok THEN Ok(AnyFloat(p.v)) ELSE Err(p.err)
    [] value.k = "Integer" -> Ok(yaml_integer(value.i))
    [] value.k = "String" -> Ok(AnyString(value.s))
    [] value.k = "Boolean" -> Ok(AnyBoolean(value.b))
    [] value.k = "Array" ->
         LET rs == [i \in 1..Len(value.a) |-> AnyValue_try_from_yaml(value.a[i])]
         IN IF AllOk(rs) THEN Ok(AnyArray([i \in 1..Len(rs) |-> rs[i].v]))
            ELSE rs[FirstErr(rs)]
    [] value.k = "Hash" ->
         LET h == value.h
             rs == [i \in 1..Len(h) |->
                     IF h[i].key.k # "String"
                     THEN Err("Only String values can be used for extension keys. Got '"
                              \o yaml_type_name(h[i].key) \o "'")
                     ELSE AnyValue_try_from_yaml(h[i].val)]
         IN IF AllOk(rs)
            THEN Ok(AnyObject([key \in {h[i].key.s : i \in 1..Len(h)} |->
                     rs[CHOOSE i \in 1..Len(h) : h[i].key.s = key].v]))
            ELSE rs[FirstErr(rs)]
    [] value.k = "Null" -> Ok(AnyNull)
    [] OTHER -> Err("Values of '" \o yaml_type_name(value)
                    \o "' can not be used as an extension value")

json_number_signed_first(n) ==
  IF as_i64(n).some THEN AnyInteger(as_i64(n).v)
  ELSE IF as_u64(n).some THEN AnyUInteger(as_u64(n).v)
  ELSE AnyFloat(as_f64(n).v)

\* The Value::Number arm of TryFrom<&Value> for AnyValue
json_number(n) ==
  IF as_u64(n).some THEN AnyUInteger(as_u64(n).v)
  ELSE IF as_i64(n).some THEN AnyInteger(as_i64(n).v)
  ELSE AnyFloat(as_f64(n).v)

\* impl TryFrom<&Value> for AnyValue
RECURSIVE AnyValue_try_from_json(_)
AnyValue_try_from_json(value) ==
  CASE value.k = "Null" -> Ok(AnyNull)
    [] value.k = "Bool" -> Ok(AnyBoolean(value.b))
    [] value.k = "Number" -> Ok(json_number(value.n))
    [] value.k = "String" -> Ok(AnyString(value.s))
    [] value.k = "Array" ->
         LET rs == [i \in 1..Len(value.a) |-> AnyValue_try_from_json(value.a[i])]
         IN IF AllOk(rs) THEN Ok(AnyArray([i \in 1..Len(rs) |-> rs[i].v]))
            ELSE rs[FirstErr(rs)]
    [] OTHER ->
         LET rs == [key \in DOMAIN value.o |-> AnyValue_try_from_json(value.o[key])]
         IN IF \A key \in DOMAIN rs : rs[key].ok
            THEN Ok(AnyObject([key \in DOMAIN rs |-> rs[key].v]))
            ELSE rs[CHOOSE key \in DOMAIN rs : ~rs[key].ok]

-----------------------------------------------------------------------------
(* Field lookups (yaml.rs, json.rs).                                       *)

\* yaml_hash_lookup with the callback applied by the caller
yaml_hash_lookup(hash, key) == yaml_hash_get(hash, key)

yaml_hash_lookup_string(hash, key) ==
  LET g == yaml_hash_get(hash, key)
  IN IF ~g.some THEN None
     ELSE CASE g.v.k = "Real" -> Some(g.v.r)
            [] g.v.k = "Integer" -> Some(ToString(g.v.i))
            [] g.v.k = "String" -> Some(g.v.s)
            [] g.v.k = "Boolean" -> Some(bool_to_string(g.v.b))
            [] OTHER -> None

yaml_hash_require_string(hash, key) ==
  LET g == yaml_hash_get(hash, key)
  IN IF g.some
     THEN IF g.v.k = "String" THEN Ok(g.v.s)
          ELSE Err("Value for key '" \o key \o "' in hash was not a string, was "
                   \o yaml_type_name(g.v))
     ELSE Err("Did not find key '" \o key \o "' in hash")

json_object_lookup_string_text_only(map, key) ==
  LET g == json_map_get(map, key)
  IN IF ~g.some THEN None
     ELSE CASE g.v.k = "Bool" -> Some(bool_to_string(g.v.b))
            [] g.v.k = "String" -> Some(g.v.s)
            [] OTHER -> None

json_object_lookup_string(map, key) ==
  LET g == json_map_get(map, key)
  IN IF ~g.some THEN None
     ELSE CASE g.v.k = "Bool" -> Some(bool_to_string(g.v.b))
            [] g.v.k = "Number" -> Some(number_to_string(g.v.n))
            [] g.v.k = "String" -> Some(g.v.s)
            [] OTHER -> None

json_object_require_string(map, key) ==
  LET g == json_map_get(map, key)
  IN IF g.some
     THEN IF g.v.k = "String" THEN Ok(g.v.s)
          ELSE Err("Value for key '" \o key \o "' in Object was not a string, was "
                   \o json_type_name(g.v))
     ELSE Err("Did not find key '" \o key \o "' in Object")

-----------------------------------------------------------------------------
(* Extension extraction (extensions.rs).                                   *)

extension_suffix_any_case(key) ==
  IF starts_with(key, "x-") \/ starts_with(key, "X-")
  THEN Some(SubSeq(key, 3, Len(key))) ELSE None

\* key.strip_prefix("x-")
extension_suffix(key) == strip_prefix(key, "x-")

\* The loop of yaml_extract_extensions: rs[i] is what entry i contributes,
\* an insert (Ok(Some)), nothing (Ok(None)) or the error that ends the loop;
\* a later insert under the same name replaces an earlier one.
yaml_extract_extensions(hash) ==
  Bind([i \in 1..Len(hash) |->
         IF hash[i].key.k = "String" /\ extension_suffix(hash[i].key.s).some
         THEN Try(AnyValue_try_from_yaml(hash[i].val), LAMBDA value :
                Ok(Some([name |-> extension_suffix(hash[i].key.s).v, value |-> value])))
         ELSE Ok(None)],
       LAMBDA rs :
         LET ins == {i \in 1..Len(hash) : rs[i].ok /\ rs[i].v.some}
         IN IF AllOk(rs)
            THEN Ok([name \in {rs[i].v.v.name : i \in ins} |->
                      rs[CHOOSE i \in ins :
                           /\ rs[i].v.v.name = name
                           /\ \A j \in ins : rs[j].v.v.name = name => j <= i
                        ].v.v.value])
            ELSE rs[FirstErr(rs)])

json_extract_extensions(map) ==
  LET ks == {key \in DOMAIN map : extension_suffix(key).some}
      rs == [key \in ks |-> AnyValue_try_from_json(map[key])]
  IN IF \A key \in ks : rs[key].ok
     THEN Ok([name \in {extension_suffix(key).v : key \in ks} |->
               rs[CHOOSE key \in ks : extension_suffix(key).v = name].v])
     ELSE rs[CHOOSE key \in ks : ~rs[key].ok]

-----------------------------------------------------------------------------
(* Parameter Object (v1_0.rs, json.rs).                                    *)

ParameterObject(name, in, value, extensions) ==
  [name |-> name, in |-> in, value |-> value, extensions |-> extensions]

\* derive(PartialEq) for Either<AnyValue, String>
ValueEq(x, y) ==
  /\ x.side = y.side
  /\ IF x.side = "First" THEN AnyEq(x.a, y.a) ELSE x.b = y.b

\* derive(PartialEq) for ParameterObject
ParameterEq(x, y) ==
  /\ x.name = y.name
  /\ x.in = y.in
  /\ ValueEq(x.value, y.value)
  /\ ExtensionsEq(x.extensions, y.extensions)

yaml_load_parameter_value_any_expression(hash, key) ==
  Bind(yaml_hash_lookup(hash, key), LAMBDA g :
    Bind(IF ~g.some THEN None
         ELSE IF g.v.k = "String"
         THEN Some(Second(g.v.s))
         ELSE Bind(AnyValue_try_from_yaml(g.v), LAMBDA d :
                IF d.ok THEN Some(First(d.v)) ELSE None),
         LAMBDA cb :
           IF cb.some THEN Ok(cb.v)
           ELSE Err("Parameter value is required [4.6.6.1 Fixed Fields]")))

yaml_load_parameter_value(hash, key) ==
  Bind(yaml_hash_lookup(hash, key), LAMBDA g :
    Bind(IF ~g.some THEN None
         ELSE IF g.v.k = "String"
         THEN IF starts_with(g.v.s, "$")
              THEN Some(Second(g.v.s))
              ELSE Some(First(AnyString(g.v.s)))
         ELSE Bind(AnyValue_try_from_yaml(g.v), LAMBDA d :
                IF d.ok THEN Some(First(d.v)) ELSE None),
         LAMBDA cb :
           IF cb.some THEN Ok(cb.v)
           ELSE Err("Parameter value is required [4.6.6.1 Fixed Fields]")))

json_load_parameter_value_all_literal(map, key) ==
  Bind(json_map_get(map, key), LAMBDA g :
    IF g.some
    THEN Try(AnyValue_try_from_json(g.v), LAMBDA d : Ok(First(d)))
    ELSE Err("Parameter value is required [4.6.6.1 Fixed Fields]"))

json_load_parameter_value(map, key) ==
  Bind(json_map_get(map, key), LAMBDA g :
    IF g.some
    THEN IF g.v.k = "String"
         THEN IF starts_with(g.v.s, "$")
              THEN Ok(Second(g.v.s))
              ELSE Ok(First(AnyString(g.v.s)))
         ELSE Try(AnyValue_try_from_json(g.v), LAMBDA d : Ok(First(d)))
    ELSE Err("Parameter value is required [4.6.6.1 Fixed Fields]"))

\* impl TryFrom<&Hash> for ParameterObject
ParameterObject_try_from_yaml(value) ==
  Try(yaml_hash_require_string(value, "name"), LAMBDA name :
  Try(yaml_load_parameter_value(value, "value"), LAMBDA val :
  Try(yaml_extract_extensions(value), LAMBDA extensions :
    Ok(ParameterObject(name, yaml_hash_lookup_string(value, "in"), val, extensions)))))

\* impl TryFrom<&Value> for ParameterObject
ParameterObject_try_from_json(value) ==
  IF value.k = "Object"
  THEN Try(json_object_require_string(value.o, "name"), LAMBDA name :
       Try(json_load_parameter_value(value.o, "value"), LAMBDA val :
       Try(json_extract_extensions(value.o), LAMBDA extensions :
         Ok(ParameterObject(name, json_object_lookup_string(value.o, "in"), val,
                            extensions)))))
  \* the message holds the value's Debug text, shortened here to its kind
  ELSE Err("JSON value must be an Object, got " \o json_type_name(value))

-----------------------------------------------------------------------------
(* YAML to JSON (yaml.rs).                                                 *)

\* json!(f) for an f64: a Number, or Null for a float that is not finite
json_from_f64(f) == IF f.cls = "fin" THEN JFloat(f) ELSE JNull

\* Converts the Yaml value to the equivalent JSON value
RECURSIVE yaml_to_json(_)
yaml_to_json(yaml) ==
  CASE yaml.k = "Null" -> Ok(JNull)
    [] yaml.k = "Boolean" -> Ok(JBool(yaml.b))
    [] yaml.k = "Integer" -> Ok(JInt(yaml.i))
    [] yaml.k = "Real" ->
         LET p == parse_f64(yaml.r)
         IN IF p.ok THEN Ok(json_from_f64(p.v)) ELSE Err(p.err)
    [] yaml.k = "String" -> Ok(JString(yaml.s))
    [] yaml.k = "Array" ->
         LET rs == [i \in 1..Len(yaml.a) |-> yaml_to_json(yaml.a[i])]
         IN IF AllOk(rs) THEN Ok(JArray([i \in 1..Len(rs) |-> rs[i].v]))
            ELSE rs[FirstErr(rs)]
    [] yaml.k = "Hash" ->
         LET h == yaml.h
             rs == [i \in 1..Len(h) |->
                     IF h[i].key.k # "String"
                     THEN Err("Only String values can be used for JSON keys. Got '"
                              \o yaml_type_name(h[i].key) \o "'")
                     ELSE yaml_to_json(h[i].val)]
         IN IF AllOk(rs)
            THEN Ok(JObject([key \in {h[i].key.s : i \in 1..Len(h)} |->
                     rs[CHOOSE i \in 1..Len(h) : h[i].key.s = key].v]))
            ELSE rs[FirstErr(rs)]
    [] OTHER -> Err("YAML '" \o yaml_type_name(yaml)
                    \o "' value can not be converted to JSON")

\* The three payloads (payloads.rs).
StringPayload(s) == [payload |-> "String", s |-> s]
EmptyPayload == [payload |-> "Empty"]
JsonPayload(json) == [payload |-> "Json", json |-> json]

-----------------------------------------------------------------------------
(* The YAML loaders of the description (v1_0.rs). A struct literal         *)
(* evaluates its fields in the order written, so the first field that      *)
(* fails gives the error.                                                  *)

yaml_hash_lookup_number(hash, key) ==
  LET g == yaml_hash_get(hash, key)
  IN IF ~g.some THEN None
     ELSE CASE g.v.k = "Real" ->
                 IF parse_f64(g.v.r).ok THEN Some(parse_f64(g.v.r).v) ELSE None
            [] g.v.k = "Integer" -> Some(i64_as_f64(g.v.i))
            [] OTHER -> None

yaml_hash_lookup_integer(hash, key) ==
  LET g == yaml_hash_get(hash, key)
  IN IF ~g.some THEN None
     ELSE CASE g.v.k = "Real" ->
                 IF parse_f64(g.v.r).ok THEN Some(f64_as_i64(parse_f64(g.v.r).v)) ELSE None
            [] g.v.k = "Integer" -> Some(g.v.i)
            [] OTHER -> None

\* The text of a scalar that to_string() is called on, if it is one.
scalar_text(value) ==
  CASE value.k = "Real" -> Some(value.r)
    [] value.k = "Integer" -> Some(ToString(value.i))
    [] value.k = "String" -> Some(value.s)
    [] value.k = "Boolean" -> Some(bool_to_string(value.b))
    [] OTHER -> None

\* The elements of a sequence of Options that hold a value, in order.
RECURSIVE Flatten(_)
Flatten(opts) ==
  IF Len(opts) = 0 THEN <<>>
  ELSE (IF Head(opts).some THEN <<Head(opts).v>> ELSE <<>>) \o Flatten(Tail(opts))

yaml_hash_lookup_string_list(hash, key) ==
  LET g == yaml_hash_get(hash, key)
  IN IF g.some /\ g.v.k = "Array"
     THEN Some(Flatten([i \in 1..Len(g.v.a) |-> scalar_text(g.v.a[i])]))
     ELSE None

yaml_hash_entry_to_json(hash, key) ==
  LET g == yaml_hash_get(hash, key)
  IN IF g.some THEN yaml_to_json(g.v) ELSE Ok(JNull)

\* All results Ok: the list of their values; otherwise the first error.
Collect(rs) ==
  Bind(rs, LAMBDA done :
    IF AllOk(done) THEN Ok([i \in 1..Len(done) |-> done[i].v]) ELSE done[FirstErr(done)])

HashError(value) == Err("YAML value must be a Hash, got " \o yaml_type_name(value))

\* impl TryFrom<&Hash> for ReusableObject
ReusableObject_try_from_yaml(value) ==
  LET reference == yaml_hash_require_string(value, "reference")
  IN IF reference.ok
     THEN Ok([reference |-> reference.v, value |-> yaml_hash_lookup_string(value, "value")])
     ELSE Err("Reference is required [4.6.10.1 Fixed Fields]")

\* impl TryFrom<&Hash> for SuccessObject
SuccessObject_try_from_yaml(value) ==
  Try(yaml_hash_require_string(value, "name"), LAMBDA name :
  Try(yaml_hash_require_string(value, "type"), LAMBDA type :
  Try(yaml_extract_extensions(value), LAMBDA extensions :
    Ok([name |-> name, type |-> type,
        workflow_id |-> yaml_hash_lookup_string(value, "workflowId"),
        step_id |-> yaml_hash_lookup_string(value, "stepId"),
        extensions |-> extensions]))))

\* impl TryFrom<&Hash> for FailureObject
FailureObject_try_from_yaml(value) ==
  Try(yaml_hash_require_string(value, "name"), LAMBDA name :
  Try(yaml_hash_require_string(value, "type"), LAMBDA type :
  Try(yaml_extract_extensions(value), LAMBDA extensions :
    Ok([name |-> name, type |-> type,
        workflow_id |-> yaml_hash_lookup_string(value, "workflowId"),
        step_id |-> yaml_hash_lookup_string(value, "stepId"),
        retry_after |-> yaml_hash_lookup_number(value, "retryAfter"),
        retry_limit |-> yaml_hash_lookup_integer(value, "retryLimit"),
        extensions |-> extensions]))))

\* `uint as i64`: the same bits, read as a signed number.
u64_as_i64(u) == IF u > I64_MAX THEN u - Pow2(WordBits) ELSE u

\* `uint as f64`
u64_as_f64(u) == Fin(10 * u)

json_object_lookup_number(map, key) ==
  LET g == json_map_get(map, key)
  IN IF ~g.some THEN None
     ELSE IF g.v.k = "Number"
     THEN IF as_u64(g.v.n).some THEN Some(u64_as_f64(as_u64(g.v.n).v))
          ELSE IF as_i64(g.v.n).some THEN Some(i64_as_f64(as_i64(g.v.n).v))
          ELSE as_f64(g.v.n)
     ELSE None

json_object_lookup_integer(map, key) ==
  LET g == json_map_get(map, key)
  IN IF ~g.some THEN None
     ELSE IF g.v.k = "Number"
     THEN IF as_u64(g.v.n).some THEN Some(u64_as_i64(as_u64(g.v.n).v))
          ELSE IF as_i64(g.v.n).some THEN Some(as_i64(g.v.n).v)
          ELSE Some(f64_as_i64(as_f64(g.v.n).v))
     ELSE None

\* impl TryFrom<&Value> for FailureObject
FailureObject_try_from_json(value) ==
  IF value.k = "Object"
  THEN Try(json_object_require_string(value.o, "name"), LAMBDA name :
       Try(json_object_require_string(value.o, "type"), LAMBDA type :
       Try(json_extract_extensions(value.o), LAMBDA extensions :
         Ok([name |-> name, type |-> type,
             workflow_id |-> json_object_lookup_string(value.o, "workflowId"),
             step_id |-> json_object_lookup_string(value.o, "stepId"),
             retry_after |-> json_object_lookup_number(value.o, "retryAfter"),
             retry_limit |-> json_object_lookup_integer(value.o, "retryLimit"),
             extensions |-> extensions]))))
  ELSE Err("JSON value must be an Object, got " \o json_type_name(value))

\* impl TryFrom<&Value> for CriterionExpressionType
CriterionExpressionType_try_from_json(value) ==
  IF value.k = "Object"
  THEN Try(json_object_require_string(value.o, "type"), LAMBDA type :
       Try(json_object_require_string(value.o, "version"), LAMBDA version :
       Try(json_extract_extensions(value.o), LAMBDA extensions :
         Ok([type |-> type, version |-> version, extensions |-> extensions]))))
  ELSE Err("JSON value must be an Object, got " \o json_type_name(value))

json_load_criterion_expression_type_or_none(json) ==
  Bind(json_map_get(json, "type"), LAMBDA value :
    IF ~value.some THEN Ok(None)
    ELSE IF value.v.k = "String" THEN Ok(Some(First(value.v.s)))
    ELSE Bind(CriterionExpressionType_try_from_json(value.v), LAMBDA cet :
           IF cet.ok THEN Ok(Some(Second(cet.v))) ELSE Ok(None)))

\* json.get("type").map(...).transpose()
json_load_criterion_expression_type(json) ==
  Bind(json_map_get(json, "type"), LAMBDA value :
    IF ~value.some THEN Ok(None)
    ELSE IF value.v.k = "String" THEN Ok(Some(First(value.v.s)))
    ELSE Try(CriterionExpressionType_try_from_json(value.v), LAMBDA cet :
           Ok(Some(Second(cet)))))

\* impl TryFrom<&Value> for Criterion
Criterion_try_from_json(value) ==
  IF value.k = "Object"
  THEN Try(json_object_require_string(value.o, "condition"), LAMBDA condition :
       Try(json_load_criterion_expression_type(value.o), LAMBDA type :
       Try(json_extract_extensions(value.o), LAMBDA extensions :
         Ok([context |-> json_object_lookup_string(value.o, "context"),
             condition |-> condition,
             type |-> type,
             extensions |-> extensions]))))
  ELSE Err("JSON value must be an Object, got " \o json_type_name(value))

\* Wraps the value of an Ok result, leaves an error as it is.
MapOk(r, side) ==
  Try(r, LAMBDA v : IF side = "First" THEN Ok(First(v)) ELSE Ok(Second(v)))

IsHash(item) == item.k = "Hash"

has_no_other_key(item) ==
  yaml_hash_get(item.h, "reference").some /\ Len(item.h) = 1

HasReference(item) == yaml_hash_get(item.h, "reference").some

\* The entries of a list of "A or Reusable Object": an entry that is not a
\* hash is passed over.
yaml_load_parameters_strict(hash) ==
  LET g == yaml_hash_get(hash, "parameters")
  IN IF g.some /\ g.v.k = "Array"
     THEN Collect([i \in 1..Len(g.v.a) |->
            IF ~IsHash(g.v.a[i]) THEN HashError(g.v.a[i])
            ELSE IF HasReference(g.v.a[i])
            THEN MapOk(ReusableObject_try_from_yaml(g.v.a[i].h), "Second")
            ELSE MapOk(ParameterObject_try_from_yaml(g.v.a[i].h), "First")])
     ELSE Ok(<<>>)

yaml_load_parameters(hash) ==
  LET g == yaml_hash_get(hash, "parameters")
  IN IF g.some /\ g.v.k = "Array"
     THEN LET items == SelectSeq(g.v.a, IsHash)
          IN Collect([i \in 1..Len(items) |->
               IF HasReference(items[i])
               THEN MapOk(ReusableObject_try_from_yaml(items[i].h), "Second")
               ELSE MapOk(ParameterObject_try_from_yaml(items[i].h), "First")])
     ELSE Ok(<<>>)

yaml_load_success_actions_required(hash) ==
  LET g == yaml_hash_get(hash, "successActions")
  IN IF g.some /\ g.v.k = "Array"
     THEN LET items == SelectSeq(g.v.a, IsHash)
          IN Collect([i \in 1..Len(items) |->
               IF HasReference(items[i])
               THEN MapOk(ReusableObject_try_from_yaml(items[i].h), "Second")
               ELSE MapOk(SuccessObject_try_from_yaml(items[i].h), "First")])
     ELSE Err("Success actions are required")

yaml_load_success_actions(hash) ==
  LET g == yaml_hash_get(hash, "successActions")
  IN IF g.some /\ g.v.k = "Array"
     THEN LET items == SelectSeq(g.v.a, IsHash)
          IN Collect([i \in 1..Len(items) |->
               IF HasReference(items[i])
               THEN MapOk(ReusableObject_try_from_yaml(items[i].h), "Second")
               ELSE MapOk(SuccessObject_try_from_yaml(items[i].h), "First")])
     ELSE Ok(<<>>)

yaml_load_failure_actions(hash) ==
  LET g == yaml_hash_get(hash, "failureActions")
  IN IF g.some /\ g.v.k = "Array"
     THEN LET items == SelectSeq(g.v.a, IsHash)
          IN Collect([i \in 1..Len(items) |->
               IF HasReference(items[i])
               THEN MapOk(ReusableObject_try_from_yaml(items[i].h), "Second")
               ELSE MapOk(FailureObject_try_from_yaml(items[i].h), "First")])
     ELSE Ok(<<>>)

yaml_load_outputs_any_scalar(hash) ==
  LET g == yaml_hash_get(hash, "outputs")
  IN IF g.some /\ g.v.k = "Hash"
     THEN LET h == g.v.h
              keep == {i \in 1..Len(h) : h[i].key.k = "String" /\ scalar_text(h[i].val).some}
          IN [key \in {h[i].key.s : i \in keep} |->
                scalar_text(h[CHOOSE i \in keep : h[i].key.s = key].val).v]
     ELSE EmptyMap

yaml_load_outputs(hash) ==
  LET g == yaml_hash_get(hash, "outputs")
  IN IF g.some /\ g.v.k = "Hash"
     THEN LET h == g.v.h
              keep == {i \in 1..Len(h) : h[i].key.k = "String" /\ h[i].val.k = "String"}
          IN [key \in {h[i].key.s : i \in keep} |->
                h[CHOOSE i \in keep : h[i].key.s = key].val.s]
     ELSE EmptyMap

yaml_load_payload_null_is_absent(hash, key) ==
  Bind(yaml_hash_get(hash, key), LAMBDA g :
    IF ~g.some \/ g.v.k = "Null" THEN Ok(None)
    ELSE CASE g.v.k = "String" -> Ok(Some(StringPayload(g.v.s)))
           [] OTHER -> Try(yaml_to_json(g.v), LAMBDA json : Ok(Some(JsonPayload(json)))))

yaml_load_payload(hash, key) ==
  Bind(yaml_hash_get(hash, key), LAMBDA g :
    IF ~g.some THEN Ok(None)
    ELSE CASE g.v.k = "String" -> Ok(Some(StringPayload(g.v.s)))
           [] g.v.k = "Null" -> Ok(Some(EmptyPayload))
           [] OTHER -> Try(yaml_to_json(g.v), LAMBDA json : Ok(Some(JsonPayload(json)))))

\* impl TryFrom<&Yaml> for RequestBody
RequestBody_try_from_yaml(value) ==
  IF value.k = "Hash"
  THEN Try(yaml_load_payload(value.h, "payload"), LAMBDA payload :
       Try(yaml_extract_extensions(value.h), LAMBDA extensions :
         Ok([content_type |-> yaml_hash_lookup_string(value.h, "contentType"),
             payload |-> payload,
             extensions |-> extensions])))
  ELSE HashError(value)

json_load_payload(map, key) ==
  Bind(json_map_get(map, key), LAMBDA g :
    IF g.some
    THEN CASE g.v.k = "Null" -> Ok(Some(EmptyPayload))
           [] g.v.k = "String" -> Ok(Some(StringPayload(g.v.s)))
           [] OTHER -> Ok(Some(JsonPayload(g.v)))
    ELSE Ok(None))

\* impl TryFrom<&Value> for RequestBody
RequestBody_try_from_json(value) ==
  IF value.k = "Object"
  THEN Try(json_load_payload(value.o, "payload"), LAMBDA payload :
       Try(json_extract_extensions(value.o), LAMBDA extensions :
         Ok([content_type |-> json_object_lookup_string(value.o, "contentType"),
             payload |-> payload,
             extensions |-> extensions])))
  \* the message holds the value's Debug text, shortened here to its kind
  ELSE Err("JSON value must be an Object, got " \o json_type_name(value))

\* The optional requestBody of a step: there, it is loaded; not there, None.
yaml_load_request_body(hash) ==
  Bind(yaml_hash_get(hash, "requestBody"), LAMBDA body :
    IF body.some
    THEN Try(RequestBody_try_from_yaml(body.v), LAMBDA r : Ok(Some(r)))
    ELSE Ok(None))

\* impl TryFrom<&Yaml> for Step
Step_try_from_yaml(value) ==
  IF value.k = "Hash"
  THEN Try(yaml_hash_require_string(value.h, "stepId"), LAMBDA step_id :
       Try(yaml_load_parameters(value.h), LAMBDA parameters :
       Try(yaml_load_request_body(value.h), LAMBDA request_body :
       Try(yaml_load_success_actions(value.h), LAMBDA on_success :
       Try(yaml_load_failure_actions(value.h), LAMBDA on_failure :
       Try(yaml_extract_extensions(value.h), LAMBDA extensions :
         Ok([step_id |-> step_id,
             operation_id |-> yaml_hash_lookup_string(value.h, "operationId"),
             operation_path |-> yaml_hash_lookup_string(value.h, "operationPath"),
             workflow_id |-> yaml_hash_lookup_string(value.h, "workflowId"),
             description |-> yaml_hash_lookup_string(value.h, "description"),
             parameters |-> parameters,
             request_body |-> request_body,
             on_success |-> on_success,
             on_failure |-> on_failure,
             outputs |-> yaml_load_outputs(value.h),
             extensions |-> extensions])))))))
  ELSE HashError(value)

yaml_load_steps(hash) ==
  LET g == yaml_hash_get(hash, "steps")
  IN IF g.some /\ g.v.k = "Array"
     THEN IF Len(g.v.a) = 0
          THEN Err("At lest one Step is required [4.6.4.1 Fixed Fields]")
          ELSE Collect([i \in 1..Len(g.v.a) |-> Step_try_from_yaml(g.v.a[i])])
     ELSE Err("At lest one Step is required [4.6.4.1 Fixed Fields]")

\* impl TryFrom<&Yaml> for Workflow
Workflow_try_from_yaml(value) ==
  IF value.k = "Hash"
  THEN Try(yaml_hash_require_string(value.h, "workflowId"), LAMBDA workflow_id :
       Try(yaml_hash_entry_to_json(value.h, "inputs"), LAMBDA inputs :
       Try(yaml_load_steps(value.h), LAMBDA steps :
       Try(yaml_load_success_actions(value.h), LAMBDA success_actions :
       Try(yaml_load_failure_actions(value.h), LAMBDA failure_actions :
       Try(yaml_load_parameters(value.h), LAMBDA parameters :
       Try(yaml_extract_extensions(value.h), LAMBDA extensions :
         Ok([workflow_id |-> workflow_id,
             summary |-> yaml_hash_lookup_string(value.h, "summary"),
             description |-> yaml_hash_lookup_string(value.h, "description"),
             inputs |-> inputs,
             depends_on |->
               Bind(yaml_hash_lookup_string_list(value.h, "dependsOn"), LAMBDA list :
                 IF list.some THEN list.v ELSE <<>>),
             steps |-> steps,
             success_actions |-> success_actions,
             failure_actions |-> failure_actions,
             outputs |-> yaml_load_outputs(value.h),
             parameters |-> parameters,
             extensions |-> extensions]))))))))
  ELSE HashError(value)

yaml_load_workflows_allow_empty(hash) ==
  LET g == yaml_hash_get(hash, "workflows")
  IN IF g.some /\ g.v.k = "Array"
     THEN Collect([i \in 1..Len(g.v.a) |-> Workflow_try_from_yaml(g.v.a[i])])
     ELSE Err("Workflow Object is required [4.6.1.1 Fixed Fields]")

yaml_load_workflows(hash) ==
  LET g == yaml_hash_get(hash, "workflows")
  IN IF g.some /\ g.v.k = "Array"
     THEN IF Len(g.v.a) = 0
          THEN Err("Workflows list must have at least one entry [4.6.1.1 Fixed Fields]")
          ELSE Collect([i \in 1..Len(g.v.a) |-> Workflow_try_from_yaml(g.v.a[i])])
     ELSE Err("Workflow Object is required [4.6.1.1 Fixed Fields]")

\* impl TryFrom<&Yaml> for SourceDescription
SourceDescription_try_from_yaml(value) ==
  IF value.k = "Hash"
  THEN Try(yaml_hash_require_string(value.h, "name"), LAMBDA name :
       Try(yaml_hash_require_string(value.h, "url"), LAMBDA url :
       Try(yaml_extract_extensions(value.h), LAMBDA extensions :
         Ok([name |-> name, url |-> url,
             type |-> yaml_hash_lookup_string(value.h, "type"),
             extensions |-> extensions]))))
  ELSE HashError(value)

yaml_load_source_descriptions(hash) ==
  LET g == yaml_hash_get(hash, "sourceDescriptions")
  IN IF g.some /\ g.v.k = "Array"
     THEN IF Len(g.v.a) = 0
          THEN Err("Source Description list must have at least one entry [4.6.1.1 Fixed Fields]")
          ELSE Collect([i \in 1..Len(g.v.a) |-> SourceDescription_try_from_yaml(g.v.a[i])])
     ELSE Err("Source Description Object is required [4.6.1.1 Fixed Fields]")

\* impl TryFrom<&Hash> for Info
Info_try_from_yaml(value) ==
  Bind(yaml_hash_get(value, "info"), LAMBDA g :
    IF g.some /\ g.v.k = "Hash"
    THEN Try(yaml_hash_require_string(g.v.h, "title"), LAMBDA title :
         Try(yaml_hash_require_string(g.v.h, "version"), LAMBDA version :
         Try(yaml_extract_extensions(g.v.h), LAMBDA extensions :
           Ok([title |-> title,
               summary |-> yaml_hash_lookup_string(g.v.h, "summary"),
               description |-> yaml_hash_lookup_string(g.v.h, "description"),
               version |-> version,
               extensions |-> extensions]))))
    ELSE Err("Info Object is required [4.6.1.1 Fixed Fields]"))

\* impl TryFrom<&Hash> for Components
Components_try_from_yaml(value) ==
  Bind(yaml_hash_get(value, "components"), LAMBDA g :
    IF g.some /\ g.v.k = "Hash"
    THEN Try(yaml_extract_extensions(g.v.h), LAMBDA extensions :
           Ok([extensions |-> extensions]))
    ELSE Ok([extensions |-> EmptyMap]))

\* impl TryFrom<&Yaml> for ArazzoDescription
ArazzoDescription_try_from_yaml(value) ==
  IF value.k = "Hash"
  THEN Bind(yaml_hash_require_string(value.h, "arazzo"), LAMBDA version :
         IF version.ok
         THEN Try(Info_try_from_yaml(value.h), LAMBDA info :
              Try(yaml_load_source_descriptions(value.h), LAMBDA source_descriptions :
              Try(yaml_load_workflows(value.h), LAMBDA workflows :
              Try(Components_try_from_yaml(value.h), LAMBDA components :
              Try(yaml_extract_extensions(value.h), LAMBDA extensions :
                Ok([arazzo |-> version.v,
                    info |-> info,
                    source_descriptions |-> source_descriptions,
                    workflows |-> workflows,
                    components |-> components,
                    extensions |-> extensions]))))))
         ELSE Err("Arazzo version number is required [4.6.1.1 Fixed Fields]"))
  ELSE HashError(value)

-----------------------------------------------------------------------------
(* The serialisers (serialize.rs). A serialiser drives a serde Serializer; *)
(* the tree below records the calls it makes.                              *)

TUnit == [k |-> "Unit"]
TBool(b) == [k |-> "Bool", b |-> b]
TI64(i) == [k |-> "I64", i |-> i]
TU64(u) == [k |-> "U64", u |-> u]
TF64(f) == [k |-> "F64", f |-> f]
TStr(s) == [k |-> "Str", s |-> s]
\* serialize_seq(Some(len)) and the elements
TSeq(len, a) == [k |-> "Seq", len |-> len, a |-> a]
\* serialize_map(Some(len)) and the entries, in the order of the calls
TMap(len, m) == [k |-> "Map", len |-> len, m |-> m]

TEntry(key, val) == [key |-> key, val |-> val]

\* The keys of a set of strings in ascending order.
RECURSIVE Ascending(_)
Ascending(S) ==
  IF S = {} THEN <<>>
  ELSE LET least == CHOOSE x \in S : \A y \in S \ {x} : StrLess(x, y)
       IN <<least>> \o Ascending(S \ {least})

Reverse(seq) == [i \in 1..Len(seq) |-> seq[Len(seq) + 1 - i]]

\* The orders in which a HashMap may hand out its entries.
HashSeeds == {"up", "down"}

\* HashMap::iter: the order is the map's own, chosen by its hasher.
HashIter(map, seed) ==
  IF seed = "up" THEN Ascending(DOMAIN map) ELSE Reverse(Ascending(DOMAIN map))

unsorted(keys) == keys

\* entries.sort_by(|(a, _), (b, _)| Ord::cmp(a, b)), on the keys
RECURSIVE sort_by(_)
sort_by(keys) ==
  IF Len(keys) <= 1 THEN keys
  ELSE LET rest == sort_by(Tail(keys))
           n == Cardinality({i \in 1..Len(rest) : StrLess(rest[i], Head(keys))})
       IN SubSeq(rest, 1, n) \o <<Head(keys)>> \o SubSeq(rest, n + 1, Len(rest))

\* impl Serialize for AnyValue
RECURSIVE serialize_AnyValue(_, _)
serialize_AnyValue_in_map_order(x, seed) ==
  CASE x.k = "Null" -> TUnit
    [] x.k = "Boolean" -> TBool(x.b)
    [] x.k = "Integer" -> TI64(x.i)
    [] x.k = "UInteger" -> TU64(x.u)
    [] x.k = "Float" -> TF64(x.f)
    [] x.k = "String" -> TStr(x.s)
    [] x.k = "Array" ->
         TSeq(Len(x.a), [i \in 1..Len(x.a) |-> serialize_AnyValue(x.a[i], seed)])
    [] OTHER ->
         LET entries == HashIter(x.o, seed)
         IN TMap(Cardinality(DOMAIN x.o),
                 [i \in 1..Len(entries) |->
                    TEntry(entries[i], serialize_AnyValue(x.o[entries[i]], seed))])

serialize_AnyValue(x, seed) ==
  CASE x.k = "Null" -> TUnit
    [] x.k = "Boolean" -> TBool(x.b)
    [] x.k = "Integer" -> TI64(x.i)
    [] x.k = "UInteger" -> TU64(x.u)
    [] x.k = "Float" -> TF64(x.f)
    [] x.k = "String" -> TStr(x.s)
    [] x.k = "Array" ->
         TSeq(Len(x.a), [i \in 1..Len(x.a) |-> serialize_AnyValue(x.a[i], seed)])
    [] OTHER ->
         LET entries == sort_by(HashIter(x.o, seed))
         IN TMap(Cardinality(DOMAIN x.o),
                 [i \in 1..Len(entries) |->
                    TEntry(entries[i], serialize_AnyValue(x.o[entries[i]], seed))])

prefixed_key(k) == "x-" \o k

\* The key under which an extension entry is emitted: k, as the map holds it.
extension_key(k) == k

\* The closing loop of each entity's serialiser: the extensions, sorted.
serialize_extensions(extensions, seed) ==
  LET entries == sort_by(HashIter(extensions, seed))
  IN [i \in 1..Len(entries) |->
        TEntry(extension_key(entries[i]),
               serialize_AnyValue(extensions[entries[i]], seed))]

OptEntry_null_placeholder(key, opt) ==
  <<TEntry(key, IF opt.some THEN TStr(opt.v) ELSE TUnit)>>

\* Some(value) => one entry, None => nothing
OptEntry(key, opt) == IF opt.some THEN <<TEntry(key, TStr(opt.v))>> ELSE <<>>

\* The `value` entry of a Parameter or Payload Replacement.
serialize_value(value, seed) ==
  IF value.side = "First" THEN serialize_AnyValue(value.a, seed) ELSE TStr(value.b)

serialize_ParameterObject_declared_order(self, seed) ==
  TMap(2 + Cardinality(DOMAIN self.extensions) + (IF self.in.some THEN 1 ELSE 0),
       <<TEntry("name", TStr(self.name))>>
       \o OptEntry("in", self.in)
       \o <<TEntry("value", serialize_value(self.value, seed))>>
       \o serialize_extensions(self.extensions, seed))

\* impl Serialize for ParameterObject
serialize_ParameterObject(self, seed) ==
  LET extensions_len == Cardinality(DOMAIN self.extensions)
      in_len == IF self.in.some THEN 1 ELSE 0
  IN TMap(2 + extensions_len + in_len,
          OptEntry("in", self.in)
          \o <<TEntry("name", TStr(self.name))>>
          \o <<TEntry("value", serialize_value(self.value, seed))>>
          \o serialize_extensions(self.extensions, seed))

\* impl Serialize for serde_json::Value, which JsonPayload hands over to
RECURSIVE serialize_Value(_)
serialize_Value(json) ==
  CASE json.k = "Null" -> TUnit
    [] json.k = "Bool" -> TBool(json.b)
    [] json.k = "Number" ->
         (CASE json.n.t = "PosInt" -> TU64(json.n.u)
            [] json.n.t = "NegInt" -> TI64(json.n.i)
            [] OTHER -> TF64(json.n.f))
    [] json.k = "String" -> TStr(json.s)
    [] json.k = "Array" ->
         TSeq(Len(json.a), [i \in 1..Len(json.a) |-> serialize_Value(json.a[i])])
    [] OTHER ->
         LET keys == Ascending(DOMAIN json.o)
         IN TMap(Len(keys),
                 [i \in 1..Len(keys) |-> TEntry(keys[i], serialize_Value(json.o[keys[i]]))])

\* The text serde_json writes for a string: quoted, with the quote and the
\* backslash escaped.
RECURSIVE escaped(_)
escaped(text) ==
  IF Len(text) = 0 THEN ""
  ELSE LET c == SubSeq(text, 1, 1)
       IN (IF c \in {"\"", "\\"} THEN "\\" \o c ELSE c)
          \o escaped(SubSeq(text, 2, Len(text)))

\* The items of a sequence of texts, with commas between them.
RECURSIVE comma_separated(_)
comma_separated(texts) ==
  IF Len(texts) = 0 THEN ""
  ELSE IF Len(texts) = 1 THEN texts[1]
  ELSE texts[1] \o "," \o comma_separated(Tail(texts))

\* Display for serde_json::Value: the compact text, the keys of an object
\* in the order of its map.
RECURSIVE Value_to_string(_)
Value_to_string(json) ==
  CASE json.k = "Null" -> "null"
    [] json.k = "Bool" -> bool_to_string(json.b)
    [] json.k = "Number" -> number_to_string(json.n)
    [] json.k = "String" -> "\"" \o escaped(json.s) \o "\""
    [] json.k = "Array" ->
         "[" \o comma_separated([i \in 1..Len(json.a) |-> Value_to_string(json.a[i])])
             \o "]"
    [] OTHER ->
         LET keys == Ascending(DOMAIN json.o)
         IN "{" \o comma_separated([i \in 1..Len(keys) |->
                     "\"" \o escaped(keys[i]) \o "\":"
                       \o Value_to_string(json.o[keys[i]])])
                \o "}"

\* Payload::as_bytes of the three payloads
as_bytes(payload) ==
  CASE payload.payload = "String" -> payload.s
    [] payload.payload = "Empty" -> ""
    [] OTHER -> Value_to_string(payload.json)

as_string_null_for_empty(payload) ==
  CASE payload.payload = "String" -> payload.s
    [] payload.payload = "Empty" -> "null"
    [] OTHER -> Value_to_string(payload.json)

\* Payload::as_string of the three payloads
as_string(payload) ==
  CASE payload.payload = "String" -> payload.s
    [] payload.payload = "Empty" -> ""
    [] OTHER -> Value_to_string(payload.json)

\* Payload::as_json: the trait's default is None, JsonPayload overrides it.
as_json(payload) ==
  IF payload.payload = "Json" THEN Some(payload.json) ELSE None

RequestBody_eq_absent_as_empty(self, other) ==
  IF self.content_type = other.content_type /\ ExtensionsEq(self.extensions, other.extensions)
  THEN (IF self.payload.some THEN as_bytes(self.payload.v) ELSE "")
       = (IF other.payload.some THEN as_bytes(other.payload.v) ELSE "")
  ELSE FALSE

\* impl PartialEq for RequestBody
RequestBody_eq(self, other) ==
  IF self.content_type = other.content_type /\ ExtensionsEq(self.extensions, other.extensions)
  THEN IF ~self.payload.some /\ ~other.payload.some THEN TRUE
       ELSE IF self.payload.some /\ other.payload.some
       THEN as_bytes(self.payload.v) = as_bytes(other.payload.v)
       ELSE FALSE
  ELSE FALSE

\* impl Serialize for StringPayload
serialize_StringPayload(self) == TStr(self.s)

\* impl Serialize for EmptyPayload
serialize_EmptyPayload(self) == TStr("")

\* impl Serialize for JsonPayload
serialize_JsonPayload(self) == serialize_Value(self.json)

\* impl Serialize for dyn Payload
serialize_dyn_Payload(self) ==
  CASE self.payload = "String" -> TStr(self.s)
    [] self.payload = "Json" -> serialize_Value(self.json)
    [] OTHER -> TUnit

PayloadReplacement(target, value, extensions) ==
  [target |-> target, value |-> value, extensions |-> extensions]

\* impl Serialize for PayloadReplacement
serialize_PayloadReplacement(self, seed) ==
  LET extensions_len == Cardinality(DOMAIN self.extensions)
  IN TMap(extensions_len + 2,
          <<TEntry("target", TStr(self.target))>>
          \o <<TEntry("value", serialize_value(self.value, seed))>>
          \o serialize_extensions(self.extensions, seed))

\* type: a plain type name (First); the expression-type object is left out
Criterion(context, condition, type, extensions) ==
  [context |-> context, condition |-> condition, type |-> type,
   extensions |-> extensions]

\* impl Serialize for Criterion
serialize_Criterion(self, seed) ==
  LET extensions_len == Cardinality(DOMAIN self.extensions)
      context_len == IF self.context.some THEN 1 ELSE 0
      type_len == IF self.type.some THEN 1 ELSE 0
  IN TMap(1 + extensions_len + context_len + type_len,
          <<TEntry("condition", TStr(self.condition))>>
          \o OptEntry("context", self.context)
          \o (IF self.type.some THEN <<TEntry("type", TStr(self.type.v.a))>> ELSE <<>>)
          \o serialize_extensions(self.extensions, seed))

RequestBody(content_type, payload, replacements, extensions) ==
  [content_type |-> content_type, payload |-> payload,
   replacements |-> replacements, extensions |-> extensions]

\* A non-empty Vec is one entry holding the sequence of its elements.
VecEntry(key, items) ==
  IF Len(items) = 0 THEN <<>> ELSE <<TEntry(key, TSeq(Len(items), items))>>

\* impl Serialize for RequestBody
serialize_RequestBody(self, seed) ==
  LET extensions_len == Cardinality(DOMAIN self.extensions)
      content_type_len == IF self.content_type.some THEN 1 ELSE 0
      payload_len == IF self.payload.some THEN 1 ELSE 0
      replacements_len == IF Len(self.replacements) = 0 THEN 0 ELSE 1
  IN TMap(extensions_len + content_type_len + payload_len + replacements_len,
          OptEntry("contentType", self.content_type)
          \o (IF self.payload.some
              THEN <<TEntry("payload", serialize_dyn_Payload(self.payload.v))>>
              ELSE <<>>)
          \o VecEntry("replacements",
               [i \in 1..Len(self.replacements) |->
                  serialize_PayloadReplacement(self.replacements[i], seed)])
          \o serialize_extensions(self.extensions, seed))

\* on_success and on_failure are kept empty: their elements' serialisers
\* are not part of serialize.rs.
Step(step_id, operation_id, operation_path, workflow_id, description, parameters, request_body, success_criteria, outputs, extensions) ==
  [step_id |-> step_id, operation_id |-> operation_id,
   operation_path |-> operation_path, workflow_id |-> workflow_id,
   description |-> description, parameters |-> parameters,
   request_body |-> request_body, success_criteria |-> success_criteria,
   on_success |-> <<>>, on_failure |-> <<>>, outputs |-> outputs,
   extensions |-> extensions]

\* The outputs map, written in the order of its keys.
serialize_outputs(outputs) ==
  LET keys == Ascending(DOMAIN outputs)
  IN TMap(Len(keys), [i \in 1..Len(keys) |-> TEntry(keys[i], TStr(outputs[keys[i]]))])

\* impl Serialize for Step
serialize_Step(self, seed) ==
  LET extensions_len == Cardinality(DOMAIN self.extensions)
      operation_id_len == IF self.operation_id.some THEN 1 ELSE 0
      operation_path_len == IF self.operation_path.some THEN 1 ELSE 0
      workflow_id_len == IF self.workflow_id.some THEN 1 ELSE 0
      description_len == IF self.description.some THEN 1 ELSE 0
      parameters_len == IF Len(self.parameters) = 0 THEN 0 ELSE 1
      request_body_len == IF self.request_body.some THEN 1 ELSE 0
      success_criteria_len == IF Len(self.success_criteria) = 0 THEN 0 ELSE 1
      on_success_len == IF Len(self.on_success) = 0 THEN 0 ELSE 1
      on_failure_len == IF Len(self.on_failure) = 0 THEN 0 ELSE 1
      outputs_len == IF Len(self.parameters) = 0 THEN 0 ELSE 1
  IN TMap(1 + extensions_len + operation_id_len + operation_path_len
            + workflow_id_len + description_len + parameters_len
            + request_body_len + success_criteria_len + on_success_len
            + on_failure_len + outputs_len,
          OptEntry("description", self.description)
          \o VecEntry("onFailure", self.on_failure)
          \o VecEntry("onSuccess", self.on_success)
          \o OptEntry("operationId", self.operation_id)
          \o OptEntry("operationPath", self.operation_path)
          \o (IF DOMAIN self.outputs = {} THEN <<>>
              ELSE <<TEntry("outputs", serialize_outputs(self.outputs))>>)
          \o VecEntry("parameters",
               [i \in 1..Len(self.parameters) |->
                  serialize_ParameterObject(self.parameters[i].a, seed)])
          \o (IF self.request_body.some
              THEN <<TEntry("requestBody", serialize_RequestBody(self.request_body.v, seed))>>
              ELSE <<>>)
          \o <<TEntry("stepId", TStr(self.step_id))>>
          \o VecEntry("successCriteria",
               [i \in 1..Len(self.success_criteria) |->
                  serialize_Criterion(self.success_criteria[i], seed)])
          \o OptEntry("workflowId", self.workflow_id)
          \o serialize_extensions(self.extensions, seed))

-----------------------------------------------------------------------------
(* The writers and parsers around the tree: serde_json::to_string and      *)
(* serde_yaml::to_string write the serialiser's calls as text, and         *)
(* serde_json::from_str and YamlLoader::load_from_str read the text.       *)

\* The last entry written under a key is the one a parser keeps.
LastOf(m, key) ==
  m[CHOOSE i \in 1..Len(m) : m[i].key = key /\ \A j \in (i + 1)..Len(m) : m[j].key # key]

RECURSIVE TreeToJson(_)
TreeToJson(t) ==
  CASE t.k = "Unit" -> JNull
    [] t.k = "Bool" -> JBool(t.b)
    [] t.k = "I64" -> JInt(t.i)
    [] t.k = "U64" -> JPosInt(t.u)
    [] t.k = "F64" -> json_from_f64(t.f)
    [] t.k = "Str" -> JString(t.s)
    [] t.k = "Seq" -> JArray([i \in 1..Len(t.a) |-> TreeToJson(t.a[i])])
    [] OTHER ->
         JObject([key \in {t.m[i].key : i \in 1..Len(t.m)} |->
                    TreeToJson(LastOf(t.m, key).val)])

\* An integer beyond i64 is read back by the YAML parser as a real.
RECURSIVE TreeToYaml(_)
TreeToYaml(t) ==
  CASE t.k = "Unit" -> YNull
    [] t.k = "Bool" -> YBoolean(t.b)
    [] t.k = "I64" -> YInteger(t.i)
    [] t.k = "U64" -> IF t.u <= I64_MAX THEN YInteger(t.u) ELSE YReal(ToString(t.u))
    [] t.k = "F64" -> YReal(IF t.f.cls = "nan" THEN ".nan" ELSE f64_to_string(t.f))
    [] t.k = "Str" -> YString(t.s)
    [] t.k = "Seq" -> YArray([i \in 1..Len(t.a) |-> TreeToYaml(t.a[i])])
    [] OTHER ->
         LET keep == {i \in 1..Len(t.m) : \A j \in (i + 1)..Len(t.m) : t.m[j].key # t.m[i].key}
             nth(n) == CHOOSE i \in keep : Cardinality({j \in keep : j < i}) = n - 1
         IN YHash([n \in 1..Cardinality(keep) |->
                     YEntry(YString(t.m[nth(n)].key), TreeToYaml(t.m[nth(n)].val))])

-----------------------------------------------------------------------------
(* The documents the calling program parses.                               *)

SeqsUpTo(S, n) == UNION {[1..m -> S] : m \in 0..n}

IntSamples == {I64_MIN, 0 - 1, 0, 2, I64_MAX}
UIntSamples == {0, 2, I64_MAX, I64_MAX + 1, U64_MAX}
StrSamples == {"", "$", "$a", "a$", "a"}

YScalars ==
  {YNull, YBoolean(TRUE), YBoolean(FALSE), YAlias, YBadValue}
  \cup {YInteger(i) : i \in IntSamples}
  \cup {YString(s) : s \in StrSamples}
  \cup {YReal(t) : t \in RealTexts}

\* Hashes of at most MaxLen entries, with distinct keys.
YHashes(keys, vals) ==
  {h \in SeqsUpTo({YEntry(k, v) : k \in keys, v \in vals}, MaxLen) :
     \A i, j \in 1..Len(h) : i < j => h[i].key # h[j].key}

\* The values nested inside arrays and hashes, down to depth d.
RECURSIVE YNested(_)
YNested(d) ==
  LET leaves == {YInteger(2), YInteger(0 - 1), YString("$a"), YReal(".inf")}
  IN IF d = 0 THEN leaves
     ELSE leaves \cup {YArray(<<e>>) : e \in YNested(d - 1)}
                 \cup {YHash(<<YEntry(YString("k"), e)>>) : e \in YNested(d - 1)}

\* Values with a defect two levels down, and a sound one of the same depth.
YDeepValues ==
  {YArray(<<YArray(<<YAlias>>)>>),
   YHash(<<YEntry(YString("k"), YArray(<<YInteger(2), YBadValue>>))>>),
   YArray(<<YHash(<<YEntry(YBoolean(TRUE), YInteger(2))>>)>>),
   YArray(<<YHash(<<YEntry(YString("k"), YReal("abc"))>>), YInteger(2)>>),
   YArray(<<YArray(<<YInteger(2), YString("a")>>), YNull>>)}

YValues ==
  YScalars
  \cup YDeepValues
  \cup {YArray(a) : a \in SeqsUpTo(YNested(MaxDepth - 1), MaxLen)}
  \cup {YHash(h) : h \in YHashes({YString("k"), YString("j"), YInteger(1)},
                                 {YInteger(2), YString("a")}
                                 \cup (YNested(MaxDepth - 1) \ YNested(0)))}

JScalars ==
  {JNull, JBool(TRUE), JBool(FALSE)}
  \cup {JPosInt(u) : u \in UIntSamples}
  \cup {JNegInt(i) : i \in {I64_MIN, 0 - 1}}
  \cup {JFloat(Fin(m)) : m \in {15, 0 - 5, 20}}
  \cup {JString(s) : s \in StrSamples}

JObjects(keys, vals) ==
  {JObject(o) : o \in UNION {[ks -> vals] : ks \in {x \in SUBSET keys : Cardinality(x) <= MaxLen}}}

RECURSIVE JNested(_)
JNested(d) ==
  LET leaves == {JPosInt(2), JNegInt(0 - 1), JString("$a"), JPosInt(U64_MAX)}
  IN IF d = 0 THEN leaves
     ELSE leaves \cup {JArray(<<e>>) : e \in JNested(d - 1)}
                 \cup {JObject([key \in {"k"} |-> e]) : e \in JNested(d - 1)}

JValues ==
  JScalars
  \cup {JArray(a) : a \in SeqsUpTo(JNested(MaxDepth - 1), MaxLen)}
  \cup JObjects({"k", "j"}, {JPosInt(2), JString("a")}
                            \cup (JNested(MaxDepth - 1) \ JNested(0)))

\* Objects handed to the extension extractors.
ExtKeys == {"x-one", "x-two", "X-one", "x_one", "xone", "name", "x-"}

YExtHashes ==
  {YHash(h) : h \in YHashes({YString(key) : key \in ExtKeys} \cup {YInteger(1)},
                            {YInteger(2), YString("1"), YReal(".inf"),
                             YArray(<<YInteger(2)>>)})}

JExtObjects == JObjects(ExtKeys, {JPosInt(2), JString("1"), JArray(<<JNegInt(0 - 1)>>)})

\* Parameter objects: the entries of the fields that are present, in order.
Present(key, opt) == IF opt.some THEN <<YEntry(YString(key), opt.v)>> ELSE <<>>

YParameter(name, in, value, ext) ==
  YHash(Present("name", name) \o Present("in", in) \o Present("value", value) \o ext)

YParamExts ==
  {<<>>,
   <<YEntry(YString("x-one"), YString("1"))>>,
   <<YEntry(YString("x-two"), YInteger(2)), YEntry(YString("x-one"), YString("1"))>>,
   <<YEntry(YString("x-one"), YInteger(0 - 1))>>,
   <<YEntry(YString("X-one"), YInteger(2))>>,
   <<YEntry(YString("x-one"), YReal("1.5"))>>}

YParamIns ==
  {None, Some(YString("query")), Some(YReal("1.50")), Some(YInteger(2)),
   Some(YBoolean(TRUE)), Some(YNull), Some(YArray(<<YString("query")>>)),
   Some(YHash(<<YEntry(YString("k"), YString("query"))>>))}

YParameterDocs ==
  {YParameter(Some(YString("n")), None, value, <<>>) :
     value \in {None} \cup {Some(v) : v \in YValues}}
  \cup {YParameter(Some(YString("n")), in, Some(value), ext) :
          in \in YParamIns, ext \in YParamExts,
          value \in {YString("$a"), YString("a"), YInteger(2)}}
  \cup {YParameter(name, None, Some(YString("a")), <<>>) :
          name \in {None, Some(YInteger(2)), Some(YNull)}}

JParameter(name, in, value, ext) ==
  LET fixed == {f \in {<<"name", name>>, <<"in", in>>, <<"value", value>>} : f[2].some}
      keys == {f[1] : f \in fixed} \cup DOMAIN ext
  IN JObject([key \in keys |->
       IF key \in DOMAIN ext THEN ext[key]
       ELSE (CHOOSE f \in fixed : f[1] = key)[2].v])

JParamExts ==
  {EmptyMap,
   [key \in {"x-one"} |-> JString("1")],
   [key \in {"x-one", "x-two"} |-> IF key = "x-one" THEN JString("1") ELSE JPosInt(2)],
   [key \in {"x-one"} |-> JNegInt(0 - 1)],
   [key \in {"X-one"} |-> JPosInt(2)],
   [key \in {"x-one"} |-> JFloat(Fin(15))]}

JParamIns ==
  {None, Some(JString("query")), Some(JFloat(Fin(15))), Some(JPosInt(2)),
   Some(JBool(TRUE)), Some(JNull), Some(JArray(<<JString("query")>>)),
   Some(JObject([key \in {"k"} |-> JString("query")]))}

JParameterDocs ==
  {JParameter(Some(JString("n")), None, value, EmptyMap) :
     value \in {None} \cup {Some(v) : v \in JValues}}
  \cup {JParameter(Some(JString("n")), in, Some(value), ext) :
          in \in JParamIns, ext \in JParamExts,
          value \in {JString("$a"), JString("a"), JPosInt(2)}}
  \cup {JParameter(name, None, Some(JString("a")), EmptyMap) :
          name \in {None, Some(JPosInt(2)), Some(JNull)}}
  \cup {JString("test")}

\* Descriptions: the smallest complete description, with up to MaxDefects of
\* its required fields left out or given another kind of value.
StringFields == {"arazzo", "title", "version", "name", "url", "stepId"}
ListFields == {"sourceDescriptions", "workflows", "steps"}

Changes(field) ==
  IF field \in ListFields THEN {"absent", "empty", "scalar"}
  ELSE {"absent", "integer", "hash"}

DescriptionConfigs ==
  UNION {{[field \in StringFields \cup ListFields |->
             IF field \in changed THEN change[field] ELSE "ok"] :
            change \in {c \in [changed -> {"absent", "integer", "hash", "empty", "scalar"}] :
                          \A field \in changed : c[field] \in Changes(field)}} :
         changed \in {x \in SUBSET (StringFields \cup ListFields) :
                        Cardinality(x) <= MaxDefects}}

YField(cfg, field, value) ==
  CASE cfg[field] = "ok" -> <<YEntry(YString(field), value)>>
    [] cfg[field] = "absent" -> <<>>
    [] cfg[field] = "integer" -> <<YEntry(YString(field), YInteger(2))>>
    [] cfg[field] = "hash" -> <<YEntry(YString(field), YHash(<<>>))>>
    [] cfg[field] = "empty" -> <<YEntry(YString(field), YArray(<<>>))>>
    [] OTHER -> <<YEntry(YString(field), YString("x"))>>

YDescription(cfg) ==
  LET info == YHash(YField(cfg, "title", YString("t"))
                    \o YField(cfg, "version", YString("1")))
      source == YHash(YField(cfg, "name", YString("sd"))
                      \o YField(cfg, "url", YString("u")))
      step == YHash(YField(cfg, "stepId", YString("s"))
                    \o <<YEntry(YString("operationId"), YString("op"))>>)
      workflow == YHash(<<YEntry(YString("workflowId"), YString("w"))>>
                        \o YField(cfg, "steps", YArray(<<step>>)))
  IN YHash(YField(cfg, "arazzo", YString("1.0.1"))
           \o <<YEntry(YString("info"), info)>>
           \o YField(cfg, "sourceDescriptions", YArray(<<source>>))
           \o YField(cfg, "workflows", YArray(<<workflow>>))
           \o <<YEntry(YString("x-one"), YInteger(2))>>)

YDescriptionDocs == {YDescription(cfg) : cfg \in DescriptionConfigs}

\* Reusable objects, with the reference present, absent or not a string.
YReusableDocs ==
  {YHash(Present("reference", reference) \o Present("value", value)) :
     reference \in {None, Some(YString("$components.parameters.p")),
                    Some(YInteger(2)), Some(YNull), Some(YHash(<<>>))},
     value \in {None, Some(YString("v")), Some(YInteger(2)), Some(YNull)}}

\* Workflows: a workflow of one step, with one of the three lists or the
\* outputs of the workflow or of the step given. The entries of a list are
\* objects of the primary shape, references, both at once, objects that
\* are neither, and values that are not objects.
ActionLists == {"parameters", "successActions", "failureActions"}

YPrimary(field) ==
  IF field = "parameters"
  THEN <<YEntry(YString("name"), YString("n")), YEntry(YString("value"), YInteger(2))>>
  ELSE <<YEntry(YString("name"), YString("a")), YEntry(YString("type"), YString("end"))>>

YReference == <<YEntry(YString("reference"), YString("$r"))>>

YListItems(field) ==
  {YHash(YPrimary(field)), YHash(YReference), YHash(YPrimary(field) \o YReference),
   YHash(<<YEntry(YString("reference"), YNull)>> \o YPrimary(field)),
   YHash(<<>>), YString("s"), YNull, YInteger(2), YArray(<<YHash(YPrimary(field))>>)}

YOutputs ==
  {YHash(h) : h \in YHashes({YString("a"), YString("b"), YInteger(1)},
                            {YString("1"), YInteger(2), YNull})}
  \cup {YString("s"), YArray(<<YString("1")>>), YNull}

YWorkflow(where, extra) ==
  LET step == YHash(<<YEntry(YString("stepId"), YString("s"))>>
                    \o (IF where = "step" THEN extra ELSE <<>>))
  IN YHash(<<YEntry(YString("workflowId"), YString("w")),
             YEntry(YString("steps"), YArray(<<step>>))>>
           \o (IF where = "workflow" THEN extra ELSE <<>>))

YWorkflowDocs ==
  {YWorkflow(where, extra) :
     where \in {"workflow", "step"},
     extra \in {<<>>}
       \cup {<<YEntry(YString("outputs"), o)>> : o \in YOutputs}
       \cup UNION {{<<YEntry(YString(field), YArray(list))>> :
                      list \in SeqsUpTo(YListItems(field), MaxLen)} :
                   field \in ActionLists}
       \cup {<<YEntry(YString(field), YString("s"))>> : field \in ActionLists}}
  \cup {YWorkflow("workflow", <<YEntry(YString("dependsOn"), d)>>) :
          d \in {YArray(<<YString("v"), YInteger(2), YNull>>), YArray(<<>>), YString("v")}}

\* Request bodies as documents: the payload of every kind a parser gives,
\* or none, with or without a content type.
YPayloads ==
  {YNull, YString("a"), YString("2"), YString(""), YInteger(2), YInteger(0 - 1),
   YReal("1.5"), YReal(".inf"), YReal("nan"), YBoolean(TRUE),
   YArray(<<YInteger(2), YString("a")>>), YHash(<<YEntry(YString("k"), YInteger(2))>>),
   YHash(<<YEntry(YInteger(1), YString("a"))>>), YArray(<<>>), YHash(<<>>)}

YBodyDocs ==
  {YHash(Present("contentType", content_type) \o Present("payload", payload) \o ext) :
     content_type \in {None, Some(YString("json"))},
     payload \in {None} \cup {Some(v) : v \in YPayloads},
     ext \in {<<>>, <<YEntry(YString("x-one"), YString("1"))>>}}
  \cup {YString("body")}

JPayloads ==
  {JNull, JString("a"), JString("2"), JString(""), JPosInt(2), JNegInt(0 - 1),
   JFloat(Fin(15)), JBool(TRUE), JArray(<<JPosInt(2), JString("a")>>),
   JObject([key \in {"k"} |-> JPosInt(2)]), JArray(<<>>), JObject(EmptyMap)}

\* Failure actions as documents: name and type, and the two retry fields
\* holding numbers of every kind, other values, or nothing.
YRetries ==
  {None, Some(YInteger(2)), Some(YInteger(0 - 1)), Some(YInteger(I64_MAX)),
   Some(YReal("1.5")), Some(YReal("-0.5")), Some(YReal("2.0")), Some(YReal(".inf")),
   Some(YString("2")), Some(YNull), Some(YBoolean(TRUE))}

YFailureDocs ==
  {YHash(<<YEntry(YString("name"), YString("n")), YEntry(YString("type"), YString("retry"))>>
         \o Present("retryAfter", retry_after) \o Present("retryLimit", retry_limit)) :
     retry_after \in YRetries, retry_limit \in YRetries}

JRetries ==
  {None, Some(JPosInt(2)), Some(JPosInt(I64_MAX)), Some(JPosInt(I64_MAX + 1)),
   Some(JPosInt(U64_MAX)), Some(JNegInt(0 - 1)), Some(JFloat(Fin(15))),
   Some(JFloat(Fin(0 - 5))), Some(JFloat(Fin(20))), Some(JString("2")), Some(JNull),
   Some(JBool(TRUE))}

JFailureDocs ==
  {JObject([key \in {f[1] : f \in fields} |-> (CHOOSE f \in fields : f[1] = key)[2]]) :
     fields \in {{<<"name", JString("n")>>, <<"type", JString("retry")>>}
                   \cup retry_after \cup retry_limit :
                   retry_after \in {IF r.some THEN {<<"retryAfter", r.v>>} ELSE {} : r \in JRetries},
                   retry_limit \in {IF r.some THEN {<<"retryLimit", r.v>>} ELSE {} : r \in JRetries}}}
  \cup {JString("retry")}

\* Criteria as documents: a condition, and a type of every kind or none.
JCriterionTypes ==
  {JString("regex"), JString(""), JNull, JPosInt(2), JBool(TRUE),
   JArray(<<JString("regex")>>), JObject(EmptyMap)}
  \cup {JObject([key \in {f[1] : f \in fields} |-> (CHOOSE f \in fields : f[1] = key)[2]]) :
          fields \in {type \cup version \cup ext :
                        type \in {{}, {<<"type", JString("jsonpath")>>}, {<<"type", JPosInt(2)>>}},
                        version \in {{}, {<<"version", JString("v")>>}, {<<"version", JNull>>}},
                        ext \in {{}, {<<"x-one", JPosInt(2)>>}}}}

JCriterionDocs ==
  {JObject([key \in {f[1] : f \in fields} |-> (CHOOSE f \in fields : f[1] = key)[2]]) :
     fields \in {{<<"condition", JString("c")>>} \cup context \cup type :
                   context \in {{}, {<<"context", JString("$response.body")>>}},
                   type \in {{}} \cup {{<<"type", t>>} : t \in JCriterionTypes}}}
  \cup {JObject([key \in {"type"} |-> JString("regex")]), JString("c")}

JBodyDocs ==
  {JObject([key \in {f[1] : f \in fields} |-> (CHOOSE f \in fields : f[1] = key)[2]]) :
     fields \in {content_type \cup payload \cup ext :
                   content_type \in {{}, {<<"contentType", JString("json")>>}},
                   payload \in {{}} \cup {{<<"payload", v>>} : v \in JPayloads},
                   ext \in {{}, {<<"x-one", JString("1")>>}}}}
  \cup {JString("body")}

\* Models the calling program builds itself.
AnySamples ==
  {AnyNull, AnyBoolean(TRUE), AnyInteger(0 - 1), AnyInteger(2), AnyUInteger(2),
   AnyUInteger(U64_MAX), AnyFloat(Fin(15)), AnyString("a"), AnyString("$a"),
   AnyArray(<<AnyInteger(0 - 1), AnyString("a")>>),
   AnyObject([key \in {"k", "j"} |-> AnyString(key)]),
   AnyObject([key \in {"b", "a"} |->
                IF key = "b" THEN AnyObject([inner \in {"k", "j"} |-> AnyInteger(2)])
                ELSE AnyArray(<<AnyObject([inner \in {"z", "y"} |-> AnyNull])>>)])}

ExtensionMaps ==
  UNION {[names -> {AnyString("1"), AnyInteger(0 - 1)}] :
           names \in {x \in SUBSET {"one", "two"} : Cardinality(x) <= MaxLen}}

ParameterModels ==
  {ParameterObject("n", in, value, ext) :
     in \in {None, Some("query")},
     value \in {First(v) : v \in AnySamples} \cup {Second("$a")},
     ext \in ExtensionMaps}

PayloadReplacementModels ==
  {PayloadReplacement("/a", value, ext) :
     value \in {First(AnyInteger(2)), Second("$a")}, ext \in ExtensionMaps}

CriterionModels ==
  {Criterion(context, "c", type, ext) :
     context \in {None, Some("$response.body")},
     type \in {None, Some(First("regex"))},
     ext \in ExtensionMaps}

RequestBodyModels ==
  {RequestBody(content_type, payload, replacements, ext) :
     content_type \in {None, Some("json")},
     payload \in {None, Some(StringPayload("a")), Some(EmptyPayload),
                  Some(JsonPayload(JPosInt(2))), Some(StringPayload("2")),
                  Some(StringPayload(""))},
     replacements \in {<<>>,
        <<PayloadReplacement("/a", Second("$a"), [name \in {"one"} |-> AnyString("1")])>>},
     ext \in ExtensionMaps}
  \cup {RequestBody(None, payload, <<>>, [name \in {"one"} |-> AnyFloat(NaN)]) :
          payload \in {None, Some(EmptyPayload)}}

OptStrings == {None, Some("v")}

StepModels ==
  {Step("s", operation_id, operation_path, workflow_id, description, parameters,
        request_body, success_criteria, outputs, ext) :
     operation_id \in OptStrings, operation_path \in OptStrings,
     workflow_id \in OptStrings, description \in OptStrings,
     parameters \in {<<>>,
        <<First(ParameterObject("n", None, Second("$a"),
                                [name \in {"two"} |-> AnyInteger(0 - 1)]))>>},
     request_body \in {None,
        Some(RequestBody(None, Some(StringPayload("a")), <<>>, EmptyMap))},
     success_criteria \in {<<>>, <<Criterion(None, "c", None, EmptyMap)>>},
     outputs \in {EmptyMap, [name \in {"o"} |-> "$a"]},
     ext \in ExtensionMaps}

Models(e) ==
  CASE e = "AnyValue" -> AnySamples
    [] e = "Parameter" -> ParameterModels
    [] e = "PayloadReplacement" -> PayloadReplacementModels
    [] e = "Criterion" -> CriterionModels
    [] e = "RequestBody" -> RequestBodyModels
    [] e = "Step" -> StepModels

ModelEntities ==
  {"AnyValue", "Parameter", "PayloadReplacement", "Criterion", "RequestBody", "Step"}

YamlDocs(e) ==
  CASE e = "AnyValue" -> YValues
    [] e = "Extensions" -> YExtHashes
    [] e = "Parameter" -> YParameterDocs
    [] e = "Reusable" -> YReusableDocs
    [] e = "Description" -> YDescriptionDocs
    [] e = "Workflow" -> YWorkflowDocs
    [] e = "Body" -> YBodyDocs
    [] e = "Failure" -> YFailureDocs

JsonDocs(e) ==
  CASE e = "AnyValue" -> JValues
    [] e = "Extensions" -> JExtObjects
    [] e = "Parameter" -> JParameterDocs
    [] e = "Body" -> JBodyDocs
    [] e = "Failure" -> JFailureDocs
    [] e = "CriterionDoc" -> JCriterionDocs

YamlEntities ==
  {"AnyValue", "Extensions", "Parameter", "Reusable", "Description", "Workflow", "Body",
   "Failure"}
JsonEntities == {"AnyValue", "Extensions", "Parameter", "Body", "Failure", "CriterionDoc"}

-----------------------------------------------------------------------------
(* The calling program.                                                    *)

Init ==
  /\ pc = "idle"
  /\ format = "none"
  /\ entity = "none"
  /\ raw = NoValue
  /\ loaded = NoValue
  /\ first = NoValue
  /\ tree = NoValue
  /\ verdict = NoValue

\* YamlLoader::load_from_str gives the tree of a document.
ParseYaml ==
  /\ pc = "idle"
  /\ \E e \in YamlEntities : \E doc \in YamlDocs(e) :
       /\ entity' = e
       /\ raw' = doc
  /\ format' = "yaml"
  /\ pc' = "parsed"
  /\ UNCHANGED <<loaded, first, tree, verdict>>

\* serde_json::from_str gives the tree of a document.
ParseJson ==
  /\ pc = "idle"
  /\ \E e \in JsonEntities : \E doc \in JsonDocs(e) :
       /\ entity' = e
       /\ raw' = doc
  /\ format' = "json"
  /\ pc' = "parsed"
  /\ UNCHANGED <<loaded, first, tree, verdict>>

Load(f, e, result) ==
  /\ pc = "parsed"
  /\ format = f
  /\ entity = e
  /\ loaded' = result
  /\ pc' = "loaded"
  /\ UNCHANGED <<format, entity, raw, first, tree, verdict>>

YamlAnyValue == Load("yaml", "AnyValue", AnyValue_try_from_yaml(raw))

JsonAnyValue == Load("json", "AnyValue", AnyValue_try_from_json(raw))

YamlExtractExtensions == Load("yaml", "Extensions", yaml_extract_extensions(raw.h))

JsonExtractExtensions == Load("json", "Extensions", json_extract_extensions(raw.o))

YamlLoadParameter == Load("yaml", "Parameter", ParameterObject_try_from_yaml(raw.h))

JsonLoadParameter == Load("json", "Parameter", ParameterObject_try_from_json(raw))

YamlLoadReusable == Load("yaml", "Reusable", ReusableObject_try_from_yaml(raw.h))

YamlLoadDescription == Load("yaml", "Description", ArazzoDescription_try_from_yaml(raw))

YamlLoadWorkflow == Load("yaml", "Workflow", Workflow_try_from_yaml(raw))

\* The Request Body as the loaders build it: content type, payload, extensions.
YamlLoadRequestBody == Load("yaml", "Body", RequestBody_try_from_yaml(raw))

JsonLoadRequestBody == Load("json", "Body", RequestBody_try_from_json(raw))

YamlLoadFailure == Load("yaml", "Failure", FailureObject_try_from_yaml(raw.h))

JsonLoadFailure == Load("json", "Failure", FailureObject_try_from_json(raw))

JsonLoadCriterion == Load("json", "CriterionDoc", Criterion_try_from_json(raw))

\* The caller builds a model value itself.
Construct ==
  /\ pc = "idle"
  /\ \E e \in ModelEntities : \E m \in Models(e) :
       /\ entity' = e
       /\ loaded' = Ok(m)
  /\ pc' = "loaded"
  /\ UNCHANGED <<format, raw, first, tree, verdict>>

Serialize(e, t) ==
  /\ pc = "loaded"
  /\ entity = e
  /\ loaded.ok
  /\ tree' = t
  /\ first' = loaded.v
  /\ pc' = "serialized"
  /\ UNCHANGED <<format, entity, raw, loaded, verdict>>

SerializeAnyValue ==
  \E seed \in HashSeeds : Serialize("AnyValue", serialize_AnyValue(loaded.v, seed))

SerializeParameter ==
  \E seed \in HashSeeds : Serialize("Parameter", serialize_ParameterObject(loaded.v, seed))

SerializePayloadReplacement ==
  \E seed \in HashSeeds :
    Serialize("PayloadReplacement", serialize_PayloadReplacement(loaded.v, seed))

SerializeCriterion ==
  \E seed \in HashSeeds : Serialize("Criterion", serialize_Criterion(loaded.v, seed))

SerializeRequestBody ==
  \E seed \in HashSeeds : Serialize("RequestBody", serialize_RequestBody(loaded.v, seed))

SerializeStep ==
  \E seed \in HashSeeds : Serialize("Step", serialize_Step(loaded.v, seed))

\* impl Serialize for Workflow: the body is todo!(), which panics.
SerializeWorkflow ==
  /\ pc = "loaded"
  /\ entity = "Workflow"
  /\ loaded.ok
  /\ pc' = "aborted"
  /\ UNCHANGED <<format, entity, raw, loaded, first, tree, verdict>>

\* The caller compares the Request Body it holds with another one.
CompareRequestBodies ==
  /\ pc = "loaded"
  /\ entity = "RequestBody"
  /\ loaded.ok
  /\ \E other \in RequestBodyModels :
       verdict' = [other |-> other,
                   equal |-> RequestBody_eq(loaded.v, other),
                   back |-> RequestBody_eq(other, loaded.v),
                   same |-> RequestBody_eq(loaded.v, loaded.v)]
  /\ pc' = "compared"
  /\ UNCHANGED <<format, entity, raw, loaded, first, tree>>

\* The caller renders the payload of the Request Body it holds.
RenderPayload ==
  /\ pc = "loaded"
  /\ entity \in {"RequestBody", "Body"}
  /\ loaded.ok
  /\ loaded.v.payload.some
  /\ verdict' = [bytes |-> as_bytes(loaded.v.payload.v),
                 string |-> as_string(loaded.v.payload.v),
                 json |-> as_json(loaded.v.payload.v)]
  /\ pc' = "rendered"
  /\ UNCHANGED <<format, entity, raw, loaded, first, tree>>

\* The caller serialises the payload of the Request Body it holds, once as
\* the Request Body's serialiser does and once as the payload it is.
SerializePayload ==
  /\ pc = "loaded"
  /\ entity \in {"RequestBody", "Body"}
  /\ loaded.ok
  /\ loaded.v.payload.some
  /\ verdict' = [inside |-> serialize_dyn_Payload(loaded.v.payload.v),
                 direct |-> CASE loaded.v.payload.v.payload = "String" ->
                                   serialize_StringPayload(loaded.v.payload.v)
                              [] loaded.v.payload.v.payload = "Empty" ->
                                   serialize_EmptyPayload(loaded.v.payload.v)
                              [] OTHER -> serialize_JsonPayload(loaded.v.payload.v)]
  /\ pc' = "payload_serialized"
  /\ UNCHANGED <<format, entity, raw, loaded, first, tree>>

\* serde_json::to_string, then serde_json::from_str on the text
WriteJson ==
  /\ pc = "serialized"
  /\ entity \in JsonEntities
  /\ raw' = TreeToJson(tree)
  /\ format' = "json"
  /\ loaded' = NoValue
  /\ pc' = "parsed"
  /\ UNCHANGED <<entity, first, tree, verdict>>

\* serde_yaml::to_string, then YamlLoader::load_from_str on the text
WriteYaml ==
  /\ pc = "serialized"
  /\ entity \in YamlEntities
  /\ raw' = TreeToYaml(tree)
  /\ format' = "yaml"
  /\ loaded' = NoValue
  /\ pc' = "parsed"
  /\ UNCHANGED <<entity, first, tree, verdict>>

\* The caller drops what it holds and starts again.
Done ==
  /\ pc \in {"loaded", "serialized", "compared", "rendered", "payload_serialized"}
  /\ pc' = "idle"
  /\ format' = "none"
  /\ entity' = "none"
  /\ raw' = NoValue
  /\ loaded' = NoValue
  /\ first' = NoValue
  /\ tree' = NoValue
  /\ verdict' = NoValue

Next ==
  \/ ParseYaml
  \/ ParseJson
  \/ YamlAnyValue
  \/ JsonAnyValue
  \/ YamlExtractExtensions
  \/ JsonExtractExtensions
  \/ YamlLoadParameter
  \/ JsonLoadParameter
  \/ YamlLoadReusable
  \/ YamlLoadDescription
  \/ YamlLoadWorkflow
  \/ YamlLoadRequestBody
  \/ JsonLoadRequestBody
  \/ YamlLoadFailure
  \/ JsonLoadFailure
  \/ JsonLoadCriterion
  \/ Construct
  \/ SerializeAnyValue
  \/ SerializeParameter
  \/ SerializePayloadReplacement
  \/ SerializeCriterion
  \/ SerializeRequestBody
  \/ SerializeStep
  \/ SerializeWorkflow
  \/ CompareRequestBodies
  \/ RenderPayload
  \/ SerializePayload
  \/ WriteJson
  \/ WriteYaml
  \/ Done

Spec == Init /\ [][Next]_vars

-----------------------------------------------------------------------------
(* Properties.                                                             *)

\* The node under a string key of the object in raw, and the object's string keys.
RawKeys ==
  IF format = "yaml"
  THEN {raw.h[i].key.s : i \in {j \in 1..Len(raw.h) : raw.h[j].key.k = "String"}}
  ELSE DOMAIN raw.o

RawAt(key) == IF format = "yaml" THEN yaml_hash_get(raw.h, key).v ELSE raw.o[key]

Decode(node) ==
  IF format = "yaml" THEN AnyValue_try_from_yaml(node) ELSE AnyValue_try_from_json(node)

\* C4: a JSON number decodes to UInteger when it is an integer in the u64
\* range (every non-negative integer), to Integer when it is an integer in
\* the i64 range only (the negative ones), and to Float otherwise.
C4_JsonNumberClass ==
  (pc = "loaded" /\ format = "json" /\ entity = "AnyValue" /\ raw.k = "Number") =>
    IF raw.n.t = "Float"
    THEN loaded = Ok(AnyFloat(raw.n.f))
    ELSE LET v == IF raw.n.t = "PosInt" THEN raw.n.u ELSE raw.n.i
         IN /\ (0 <= v /\ v <= U64_MAX) => loaded = Ok(AnyUInteger(v))
            /\ (I64_MIN <= v /\ v < 0) => loaded = Ok(AnyInteger(v))

\* 2 fits both ranges and is decoded as UInteger(2); the largest u64 is reached too.
C4_Witness ==
  /\ pc = "loaded" /\ format = "json" /\ entity = "AnyValue"
  /\ raw = JPosInt(2)
  /\ loaded = Ok(AnyUInteger(2))

RECURSIVE NoUInteger(_)
NoUInteger(x) ==
  CASE x.k = "UInteger" -> FALSE
    [] x.k = "Array" -> \A i \in 1..Len(x.a) : NoUInteger(x.a[i])
    [] x.k = "Object" -> \A key \in DOMAIN x.o : NoUInteger(x.o[key])
    [] OTHER -> TRUE

\* The Dynamic Values held by what was loaded.
LoadedValues ==
  CASE entity = "AnyValue" -> {loaded.v}
    [] entity = "Extensions" -> {loaded.v[name] : name \in DOMAIN loaded.v}
    [] entity = "Parameter" ->
         {loaded.v.extensions[name] : name \in DOMAIN loaded.v.extensions}
         \cup (IF loaded.v.value.side = "First" THEN {loaded.v.value.a} ELSE {})
    [] OTHER -> {}

\* C5: nothing decoded from a YAML tree holds a UInteger at any depth; a YAML
\* integer, negative or not, decodes to Integer with the same value.
C5_YamlNeverUnsigned ==
  (pc = "loaded" /\ format = "yaml" /\ loaded.ok) =>
    /\ \A x \in LoadedValues : NoUInteger(x)
    /\ (entity = "AnyValue" /\ raw.k = "Integer") => loaded.v = AnyInteger(raw.i)
    /\ (entity = "AnyValue" /\ raw.k = "Array") =>
         \A i \in 1..Len(raw.a) :
           raw.a[i].k = "Integer" => loaded.v.a[i] = AnyInteger(raw.a[i].i)

\* A non-negative integer nested in an array has been decoded.
C5_Witness ==
  /\ pc = "loaded" /\ format = "yaml" /\ entity = "AnyValue"
  /\ raw = YArray(<<YInteger(2), YInteger(0 - 1)>>)
  /\ loaded = Ok(AnyArray(<<AnyInteger(2), AnyInteger(0 - 1)>>))

ExtensionKeys == {key \in RawKeys : Len(key) >= 2 /\ SubSeq(key, 1, 2) = "x-"}

\* C6: extraction gives exactly one entry for each key that starts with the
\* two characters x-, named by the rest of the key and holding the decoded
\* value, and no entry for any other key; it fails only when such a value
\* does not decode.
C6_ExtensionExtraction ==
  (pc = "loaded" /\ entity = "Extensions") =>
    IF \A key \in ExtensionKeys : Decode(RawAt(key)).ok
    THEN /\ loaded.ok
         /\ DOMAIN loaded.v = {SubSeq(key, 3, Len(key)) : key \in ExtensionKeys}
         /\ Cardinality(DOMAIN loaded.v) = Cardinality(ExtensionKeys)
         /\ \A key \in ExtensionKeys :
              loaded.v[SubSeq(key, 3, Len(key))] = Decode(RawAt(key)).v
    ELSE ~loaded.ok

\* An object with both x-one and X-one gives the single entry one.
C6_Witness ==
  /\ pc = "loaded" /\ entity = "Extensions"
  /\ {"x-one", "X-one"} \subseteq RawKeys
  /\ loaded.ok
  /\ DOMAIN loaded.v = {"one"}

\* Structural equality of two models of the entity at hand.
ModelEq(x, y) ==
  CASE entity = "AnyValue" -> AnyEq(x, y)
    [] entity = "Extensions" -> ExtensionsEq(x, y)
    [] entity = "Parameter" -> ParameterEq(x, y)
    [] OTHER -> x = y

\* C1: loading the tree produced by serialising a model gives a model
\* structurally equal to it, through the JSON and through the YAML loader.
C1_RoundTrip ==
  (pc = "loaded" /\ first # NoValue) => (loaded.ok /\ ModelEq(loaded.v, first))

\* The entities whose serialiser closes with the extension loop.
Extensible == {"Step", "Parameter", "Criterion", "RequestBody", "PayloadReplacement"}

FixedFields ==
  CASE entity = "Step" ->
         {"description", "onFailure", "onSuccess", "operationId", "operationPath",
          "outputs", "parameters", "requestBody", "stepId", "successCriteria",
          "workflowId"}
    [] entity = "Parameter" -> {"in", "name", "value"}
    [] entity = "Criterion" -> {"condition", "context", "type"}
    [] entity = "RequestBody" -> {"contentType", "payload", "replacements"}
    [] entity = "PayloadReplacement" -> {"target", "value"}
    [] OTHER -> {}

\* C7: each extension held under a name is emitted under the key x- followed
\* by that name.
C7_ExtensionKeyPrefixed ==
  (pc = "serialized" /\ entity \in Extensible) =>
    \A name \in DOMAIN first.extensions :
      \E i \in 1..Len(tree.m) : tree.m[i].key = prefixed_key(name)

\* C8: the extension entries come after every fixed field of the entity, one
\* for each name, in ascending order of the names.
C8_ExtensionsLastAndSorted ==
  (pc = "serialized" /\ entity \in Extensible) =>
    LET names == Ascending(DOMAIN first.extensions)
        fixed == Len(tree.m) - Len(names)
    IN /\ fixed >= 0
       /\ \A i \in 1..fixed : tree.m[i].key \in FixedFields
       /\ \A i \in 1..Len(names) :
            /\ tree.m[fixed + i].val = serialize_AnyValue(first.extensions[names[i]], "up")
            /\ tree.m[fixed + i].key \in {names[i], prefixed_key(names[i])}
       /\ \A i, j \in (fixed + 1)..Len(tree.m) :
            i < j => StrLess(tree.m[i].key, tree.m[j].key)

\* A Step with two extensions and fixed fields on both sides of stepId.
C8_Witness ==
  /\ pc = "serialized" /\ entity = "Step"
  /\ DOMAIN first.extensions = {"one", "two"}
  /\ first.workflow_id.some
  /\ first.description.some
  /\ tree.m[Len(tree.m)].key = "two"

\* C3: a parameter value that is a string is the expression holding that
\* string exactly when its first character is $, and the literal String
\* otherwise; every value that is not a string is a literal.
C3_SigilRule ==
  (/\ pc = "loaded" /\ entity = "Parameter"
   /\ raw.k \in {"Hash", "Object"}
   /\ {"name", "value"} \subseteq RawKeys
   /\ RawAt("name").k = "String"
   /\ \A key \in ExtensionKeys : Decode(RawAt(key)).ok) =>
    LET v == RawAt("value")
    IN /\ loaded.ok
       /\ IF v.k = "String"
          THEN loaded.v.value =
                 (IF Len(v.s) >= 1 /\ SubSeq(v.s, 1, 1) = "$"
                  THEN Second(v.s) ELSE First(AnyString(v.s)))
          ELSE loaded.v.value.side = "First"

\* A YAML tree has a JSON counterpart when yaml_to_json converts it and no
\* real in it is NaN, which JSON cannot write.
RECURSIVE AllFinite(_)
AllFinite(yaml) ==
  CASE yaml.k = "Real" -> parse_f64(yaml.r).ok /\ parse_f64(yaml.r).v.cls = "fin"
    [] yaml.k = "Array" -> \A i \in 1..Len(yaml.a) : AllFinite(yaml.a[i])
    [] yaml.k = "Hash" -> \A i \in 1..Len(yaml.h) : AllFinite(yaml.h[i].val)
    [] OTHER -> TRUE

InBothFormats ==
  /\ pc = "loaded" /\ format = "yaml"
  /\ entity \in {"AnyValue", "Extensions", "Parameter"}
  /\ yaml_to_json(raw).ok
  /\ AllFinite(raw)

\* What the JSON loader of the entity gives for the JSON counterpart of raw.
JsonTwin ==
  LET json == yaml_to_json(raw).v
  IN CASE entity = "AnyValue" -> AnyValue_try_from_json(json)
       [] entity = "Extensions" -> json_extract_extensions(json.o)
       [] OTHER -> ParameterObject_try_from_json(json)

RECURSIVE AnyAgree(_, _)
AnyAgree(y, j) ==
  CASE y.k = "Integer" -> j = (IF y.i >= 0 THEN AnyUInteger(y.i) ELSE AnyInteger(y.i))
    [] y.k = "UInteger" -> FALSE
    [] y.k = "Float" -> j.k = "Float" /\ f64_eq(y.f, j.f)
    [] y.k = "Array" ->
         /\ j.k = "Array" /\ Len(j.a) = Len(y.a)
         /\ \A i \in 1..Len(y.a) : AnyAgree(y.a[i], j.a[i])
    [] y.k = "Object" ->
         /\ j.k = "Object" /\ DOMAIN j.o = DOMAIN y.o
         /\ \A key \in DOMAIN y.o : AnyAgree(y.o[key], j.o[key])
    [] OTHER -> j = y

ExtensionsAgree(y, j) ==
  /\ DOMAIN y = DOMAIN j
  /\ \A name \in DOMAIN y : AnyAgree(y[name], j[name])

\* An optional string field agrees, but for a field written as a real: the
\* YAML loader keeps the source text, the JSON loader writes the number.
TextAgree(key, y, j) ==
  IF yaml_hash_get(raw.h, key).some /\ yaml_hash_get(raw.h, key).v.k = "Real"
  THEN /\ y = Some(yaml_hash_get(raw.h, key).v.r)
       /\ j = Some(f64_to_string(parse_f64(yaml_hash_get(raw.h, key).v.r).v))
  ELSE y = j

ModelsAgree(y, j) ==
  CASE entity = "AnyValue" -> AnyAgree(y, j)
    [] entity = "Extensions" -> ExtensionsAgree(y, j)
    [] OTHER ->
         /\ y.name = j.name
         /\ TextAgree("in", y.in, j.in)
         /\ y.value.side = j.value.side
         /\ IF y.value.side = "First" THEN AnyAgree(y.value.a, j.value.a)
            ELSE y.value.b = j.value.b
         /\ ExtensionsAgree(y.extensions, j.extensions)

Contains(text, part) ==
  \E i \in 1..(Len(text) - Len(part) + 1) : SubSeq(text, i, i + Len(part) - 1) = part

\* How a required string or a required list stands in a hash.
StringState(hash, key) ==
  LET g == yaml_hash_get(hash, key)
  IN IF ~g.some THEN "absent" ELSE IF g.v.k = "String" THEN "ok" ELSE "wrong"

ListState(hash, key) ==
  LET g == yaml_hash_get(hash, key)
  IN IF ~g.some THEN "absent"
     ELSE IF g.v.k # "Array" THEN "scalar"
     ELSE IF Len(g.v.a) = 0 THEN "empty" ELSE "ok"

Check(field, hash, list) ==
  [field |-> field, hash |-> hash, list |-> list,
   state |-> IF list THEN ListState(hash, field) ELSE StringState(hash, field)]

\* The required fields of the description in raw, in the order in which the
\* loader comes to them; a list that is not there hides the fields below it.
DescriptionChecks ==
  LET top == raw.h
      info == yaml_hash_get(top, "info").v.h
      sources == Check("sourceDescriptions", top, TRUE)
      source == yaml_hash_get(top, "sourceDescriptions").v.a[1].h
      workflows == Check("workflows", top, TRUE)
      workflow == yaml_hash_get(top, "workflows").v.a[1].h
      steps == Check("steps", workflow, TRUE)
      step == yaml_hash_get(workflow, "steps").v.a[1].h
  IN <<Check("arazzo", top, FALSE), Check("title", info, FALSE),
       Check("version", info, FALSE), sources>>
     \o (IF sources.state = "ok"
         THEN <<Check("name", source, FALSE), Check("url", source, FALSE)>> ELSE <<>>)
     \o <<workflows>>
     \o (IF workflows.state = "ok"
         THEN <<steps>> \o (IF steps.state = "ok"
                            THEN <<Check("stepId", step, FALSE)>> ELSE <<>>)
         ELSE <<>>)

RequiredChecks ==
  CASE entity = "Description" -> DescriptionChecks
    [] entity = "Reusable" -> <<Check("reference", raw.h, FALSE)>>
    [] OTHER -> <<>>

HasDefect == \E i \in 1..Len(RequiredChecks) : RequiredChecks[i].state # "ok"

\* The first required field that is not as it must be.
FirstDefect ==
  RequiredChecks[CHOOSE i \in 1..Len(RequiredChecks) :
                   /\ RequiredChecks[i].state # "ok"
                   /\ \A j \in 1..(i - 1) : RequiredChecks[j].state = "ok"]

LoadedRequired == pc = "loaded" /\ format = "yaml" /\ entity \in {"Description", "Reusable"}

\* C9: a required string field that is absent fails the load with an error
\* that says the field is missing; one that is present but not a string
\* fails it with another error, naming the field and the kind found.
C9_RequiredStringErrors ==
  (LoadedRequired /\ HasDefect /\ ~FirstDefect.list) =>
    LET d == FirstDefect
    IN /\ ~loaded.ok
       /\ d.state = "absent" =>
            \/ Contains(loaded.err, "Did not find key '" \o d.field \o "'")
            \/ Contains(loaded.err, "is required")
       /\ d.state = "wrong" =>
            /\ Contains(loaded.err, "'" \o d.field \o "'")
            /\ Contains(loaded.err, "was not a string, was "
                          \o yaml_type_name(yaml_hash_get(d.hash, d.field).v))

\* The error each list gives when it is there but empty.
EmptyListError(field) ==
  CASE field = "sourceDescriptions" ->
         "Source Description list must have at least one entry [4.6.1.1 Fixed Fields]"
    [] field = "workflows" ->
         "Workflows list must have at least one entry [4.6.1.1 Fixed Fields]"
    [] OTHER -> "At lest one Step is required [4.6.4.1 Fixed Fields]"

\* The error each list gives when it is not there at all.
AbsentListError(field) ==
  CASE field = "sourceDescriptions" ->
         "Source Description Object is required [4.6.1.1 Fixed Fields]"
    [] field = "workflows" -> "Workflow Object is required [4.6.1.1 Fixed Fields]"
    [] OTHER -> "At lest one Step is required [4.6.4.1 Fixed Fields]"

ListDefect ==
  /\ pc = "loaded" /\ format = "yaml" /\ entity = "Description"
  /\ HasDefect /\ FirstDefect.list /\ FirstDefect.state \in {"absent", "empty"}

\* C10 as stated: a required list that is absent and one that is empty fail
\* the load with the same error, the one of the empty list.
C10_AbsentSameAsEmpty ==
  ListDefect => (~loaded.ok /\ loaded.err = EmptyListError(FirstDefect.field))

\* C10, amended: a required list that is absent or empty always fails the
\* load; the two cases give the same error for steps only, while for
\* sourceDescriptions and workflows the absent list is reported as a
\* required object and the empty one as a list without entries.
C10_RequiredListErrors ==
  (pc = "loaded" /\ format = "yaml" /\ entity = "Description") =>
    /\ (\E i \in 1..Len(RequiredChecks) :
          RequiredChecks[i].list /\ RequiredChecks[i].state \in {"absent", "empty"})
         => ~loaded.ok
    /\ ListDefect =>
         /\ loaded.err = (IF FirstDefect.state = "absent"
                          THEN AbsentListError(FirstDefect.field)
                          ELSE EmptyListError(FirstDefect.field))
         /\ (AbsentListError(FirstDefect.field) = EmptyListError(FirstDefect.field))
              <=> FirstDefect.field = "steps"

\* The workflows list is there but empty, everything before it being right.
C10_Witness ==
  /\ ListDefect
  /\ FirstDefect.field = "workflows" /\ FirstDefect.state = "empty"
  /\ loaded = Err("Workflows list must have at least one entry [4.6.1.1 Fixed Fields]")

\* The places of a workflow document that hold a list of entries that are
\* each of a primary shape or a reference: three in the workflow itself and
\* three in its step.
ListSites == {<<where, field>> : where \in {"workflow", "step"}, field \in ActionLists}

SiteHash(where) ==
  IF where = "workflow" THEN raw.h ELSE yaml_hash_get(raw.h, "steps").v.a[1].h

\* The entries written at a site; none when the list is not there.
SiteItems(site) ==
  LET g == yaml_hash_get(SiteHash(site[1]), site[2])
  IN IF g.some /\ g.v.k = "Array" THEN g.v.a ELSE <<>>

\* The list the loaded workflow holds for a site.
SiteLoaded(site) ==
  CASE site = <<"workflow", "parameters">> -> loaded.v.parameters
    [] site = <<"workflow", "successActions">> -> loaded.v.success_actions
    [] site = <<"workflow", "failureActions">> -> loaded.v.failure_actions
    [] site = <<"step", "parameters">> -> loaded.v.steps[1].parameters
    [] site = <<"step", "successActions">> -> loaded.v.steps[1].on_success
    [] OTHER -> loaded.v.steps[1].on_failure

\* The entries that are objects, in the order written.
RECURSIVE Objects(_)
Objects(items) ==
  IF Len(items) = 0 THEN <<>>
  ELSE (IF Head(items).k = "Hash" THEN <<Head(items)>> ELSE <<>>) \o Objects(Tail(items))

Refers(item) == \E i \in 1..Len(item.h) : item.h[i].key = YString("reference")

PrimaryOf(field, item) ==
  CASE field = "parameters" -> ParameterObject_try_from_yaml(item.h)
    [] field = "successActions" -> SuccessObject_try_from_yaml(item.h)
    [] OTHER -> FailureObject_try_from_yaml(item.h)

LoadedWorkflow == pc = "loaded" /\ format = "yaml" /\ entity = "Workflow"

\* C11: in a parameters, successActions or failureActions list an object
\* entry with the key reference is decoded as a Reusable Reference, whatever
\* else it holds, and an object entry without it as the primary shape; an
\* entry with the key is never read as the primary shape, so one whose
\* reference is not a string fails the load although its other fields are
\* those of the primary shape.
C11_ReferenceKeyDecides ==
  LoadedWorkflow =>
    \A site \in ListSites :
      LET items == Objects(SiteItems(site))
      IN /\ loaded.ok =>
              /\ Len(SiteLoaded(site)) = Len(items)
              /\ \A i \in 1..Len(items) :
                   IF Refers(items[i])
                   THEN /\ SiteLoaded(site)[i].side = "Second"
                        /\ SiteLoaded(site)[i].b.reference =
                             yaml_hash_get(items[i].h, "reference").v.s
                   ELSE /\ SiteLoaded(site)[i].side = "First"
                        /\ SiteLoaded(site)[i].a = PrimaryOf(site[2], items[i]).v
         /\ (\E i \in 1..Len(items) :
               Refers(items[i]) /\ yaml_hash_get(items[i].h, "reference").v.k # "String")
              => ~loaded.ok

\* A list of an entry holding both the reference and the fields of a
\* parameter, then a plain parameter: a reference, then a parameter.
C11_Witness ==
  /\ LoadedWorkflow /\ loaded.ok
  /\ SiteItems(<<"workflow", "parameters">>) =
       <<YHash(YPrimary("parameters") \o YReference), YHash(YPrimary("parameters"))>>
  /\ loaded.v.parameters[1] = Second([reference |-> "$r", value |-> Some("2")])
  /\ loaded.v.parameters[2].side = "First"

\* What an object entry of a list gives.
ItemResult(field, item) ==
  IF Refers(item) THEN MapOk(ReusableObject_try_from_yaml(item.h), "Second")
  ELSE MapOk(PrimaryOf(field, item), "First")

\* C12: an entry of such a list that is not an object is left out and does
\* not fail the load: the load succeeds exactly when every object entry
\* decodes, and the loaded list is the decoded object entries in the order
\* of the document.
C12_NonObjectsLeftOut ==
  LoadedWorkflow =>
    /\ loaded.ok <=>
         \A site \in ListSites : \A i \in 1..Len(Objects(SiteItems(site))) :
           ItemResult(site[2], Objects(SiteItems(site))[i]).ok
    /\ loaded.ok =>
         \A site \in ListSites :
           SiteLoaded(site) =
             [i \in 1..Len(Objects(SiteItems(site))) |->
                ItemResult(site[2], Objects(SiteItems(site))[i]).v]

\* A null after a reference in the failure actions of the step.
C12_Witness ==
  /\ LoadedWorkflow /\ loaded.ok
  /\ SiteItems(<<"step", "failureActions">>) =
       <<YHash(YReference), YNull>>
  /\ loaded.v.steps[1].on_failure = <<Second([reference |-> "$r", value |-> None])>>

\* The entries of the outputs written in the workflow or in its step; none
\* when outputs is not there or is not a mapping.
OutputsWritten(where) ==
  LET g == yaml_hash_get(SiteHash(where), "outputs")
  IN IF g.some /\ g.v.k = "Hash" THEN g.v.h ELSE <<>>

OutputsLoaded(where) ==
  IF where = "workflow" THEN loaded.v.outputs ELSE loaded.v.steps[1].outputs

\* C13: loading outputs never fails the load, and gives exactly the entries
\* whose key and value are both strings: an entry with another kind of value
\* is dropped, the string-valued entries beside it are kept, and outputs
\* that is absent or not a mapping gives the empty mapping.
C13_OutputsKeepStrings ==
  LoadedWorkflow =>
    /\ (\A site \in ListSites : Len(SiteItems(site)) = 0) => loaded.ok
    /\ loaded.ok =>
         \A where \in {"workflow", "step"} :
           LET h == OutputsWritten(where)
               kept == {i \in 1..Len(h) : h[i].key.k = "String" /\ h[i].val.k = "String"}
           IN /\ DOMAIN OutputsLoaded(where) = {h[i].key.s : i \in kept}
              /\ \A i \in kept : OutputsLoaded(where)[h[i].key.s] = h[i].val.s

\* Of a: "1" and b: 2 only a is kept.
C13_Witness ==
  /\ LoadedWorkflow /\ loaded.ok
  /\ OutputsWritten("step") =
       <<YEntry(YString("a"), YString("1")), YEntry(YString("b"), YInteger(2))>>
  /\ loaded.v.steps[1].outputs = [key \in {"a"} |-> "1"]

\* The bytes of the payload of a Request Body, when it has one.
PayloadBytes(body) == IF body.payload.some THEN Some(as_bytes(body.payload.v)) ELSE None

\* C14: two Request Bodies compare equal exactly when their content types
\* are equal, their extension mappings are equal, their replacement lists
\* are equal and their payloads give the same bytes, whichever kind of
\* payload gave them.
C14_RequestBodyEquality ==
  (pc = "compared" /\ entity = "RequestBody") =>
    (verdict.equal <=>
       /\ loaded.v.content_type = verdict.other.content_type
       /\ ExtensionsEq(loaded.v.extensions, verdict.other.extensions)
       /\ loaded.v.replacements = verdict.other.replacements
       /\ PayloadBytes(loaded.v) = PayloadBytes(verdict.other))

LoadedBody == pc = "loaded" /\ entity = "Body" /\ raw.k \in {"Hash", "Object"}

\* The payload written in the request body in raw, if any.
PayloadWritten ==
  IF format = "yaml" THEN yaml_hash_get(raw.h, "payload") ELSE json_map_get(raw.o, "payload")

\* C15 as stated: a payload that is null is loaded as the Empty payload, a
\* string as the Raw-String payload of that text, any other value (an
\* object, an array, a number, a boolean) as a Structured payload, and no
\* payload key gives no payload, in the two formats alike.
C15_PayloadClassified ==
  LoadedBody =>
    /\ loaded.ok
    /\ loaded.v.payload =
         (IF ~PayloadWritten.some THEN None
          ELSE CASE PayloadWritten.v.k = "Null" -> Some(EmptyPayload)
                 [] PayloadWritten.v.k = "String" -> Some(StringPayload(PayloadWritten.v.s))
                 [] OTHER ->
                      Some(JsonPayload(IF format = "yaml"
                                       THEN yaml_to_json(PayloadWritten.v).v
                                       ELSE PayloadWritten.v)))

\* C15, amended: as stated, but a YAML value that is neither null nor a
\* string is first converted to JSON: the Structured payload holds the
\* converted node, and when the conversion fails (a real such as .inf, a
\* mapping with a key that is not a string) the load fails with its error.
C15_PayloadClassifiedWhenConvertible ==
  LoadedBody =>
    IF ~PayloadWritten.some THEN loaded.ok /\ loaded.v.payload = None
    ELSE CASE PayloadWritten.v.k = "Null" ->
                loaded.ok /\ loaded.v.payload = Some(EmptyPayload)
           [] PayloadWritten.v.k = "String" ->
                loaded.ok /\ loaded.v.payload = Some(StringPayload(PayloadWritten.v.s))
           [] format = "json" ->
                loaded.ok /\ loaded.v.payload = Some(JsonPayload(PayloadWritten.v))
           [] OTHER ->
                IF yaml_to_json(PayloadWritten.v).ok
                THEN /\ loaded.ok
                     /\ loaded.v.payload = Some(JsonPayload(yaml_to_json(PayloadWritten.v).v))
                ELSE loaded = yaml_to_json(PayloadWritten.v)

\* A YAML object payload and a string payload that reads as a number.
C15_Witness ==
  /\ LoadedBody /\ format = "yaml" /\ loaded.ok
  /\ PayloadWritten = Some(YHash(<<YEntry(YString("k"), YInteger(2))>>))
  /\ loaded.v.payload = Some(JsonPayload(JObject([key \in {"k"} |-> JPosInt(2)])))

\* C16: serialising a model that was loaded or built completes and gives a
\* document tree; no serialiser aborts the process.
C16_SerialisationCompletes ==
  /\ pc # "aborted"
  /\ pc = "serialized" => tree # NoValue

\* The entities whose serialiser writes fixed fields and then the extensions.
FieldEntities == {"Parameter", "PayloadReplacement", "Criterion", "RequestBody", "Step"}

IfSome(key, opt) == IF opt.some THEN {key} ELSE {}

NonEmpty(key, size) == IF size = 0 THEN {} ELSE {key}

\* The fixed fields a model has: the required ones, the optional ones that
\* are set, the lists and mappings that hold something.
FieldsSet(e, m) ==
  CASE e = "Parameter" -> {"name", "value"} \cup IfSome("in", m.in)
    [] e = "PayloadReplacement" -> {"target", "value"}
    [] e = "Criterion" ->
         {"condition"} \cup IfSome("context", m.context) \cup IfSome("type", m.type)
    [] e = "RequestBody" ->
         IfSome("contentType", m.content_type) \cup IfSome("payload", m.payload)
           \cup NonEmpty("replacements", Len(m.replacements))
    [] OTHER ->
         {"stepId"} \cup IfSome("description", m.description)
           \cup IfSome("operationId", m.operation_id)
           \cup IfSome("operationPath", m.operation_path)
           \cup IfSome("workflowId", m.workflow_id)
           \cup IfSome("requestBody", m.request_body)
           \cup NonEmpty("parameters", Len(m.parameters))
           \cup NonEmpty("successCriteria", Len(m.success_criteria))
           \cup NonEmpty("onSuccess", Len(m.on_success))
           \cup NonEmpty("onFailure", Len(m.on_failure))
           \cup NonEmpty("outputs", Cardinality(DOMAIN m.outputs))

\* The entries a serialiser wrote before the closing loop over the extensions.
FixedEntries(t, m) == SubSeq(t.m, 1, Len(t.m) - Cardinality(DOMAIN m.extensions))

KeysOf(entries) == [i \in 1..Len(entries) |-> entries[i].key]

Range(seq) == {seq[i] : i \in 1..Len(seq)}

\* C17: the fixed-field keys a serialiser writes are the required fields,
\* the optional fields that are set and the lists and mappings that are not
\* empty, each once; a field that is absent or empty gets no entry, so no
\* null stands in for it.
C17_OnlyPresentFieldsEmitted ==
  (pc = "serialized" /\ entity \in FieldEntities) =>
    LET fixed == FixedEntries(tree, first)
    IN /\ Range(KeysOf(fixed)) = FieldsSet(entity, first)
       /\ Len(fixed) = Cardinality(FieldsSet(entity, first))
       /\ \A i \in 1..Len(fixed) :
            fixed[i].val = TUnit => fixed[i].key \in {"payload", "value"}

\* A Request Body with nothing set has been serialised, to an empty map.
C17_Witness ==
  /\ pc = "serialized"
  /\ entity = "RequestBody"
  /\ FieldsSet(entity, first) = {}
  /\ DOMAIN first.extensions = {}
  /\ tree = TMap(0, <<>>)

\* C18: the fixed fields of a Step, Parameter, Criterion, Request Body or
\* Payload Replacement are written in one order that depends on nothing but
\* which fields the model has: the ascending order of their keys, which is
\* the order of the serialiser's statements.
C18_FixedFieldOrder ==
  (pc = "serialized" /\ entity \in FieldEntities) =>
    KeysOf(FixedEntries(tree, first)) = Ascending(FieldsSet(entity, first))

\* A Parameter read from a document that has `name` before `in` has been
\* serialised with `in` before `name`.
C18_Witness ==
  /\ pc = "serialized"
  /\ entity = "Parameter"
  /\ format = "yaml"
  /\ first.in.some
  /\ KeysOf(SubSeq(raw.h, 1, 2)) = <<YString("name"), YString("in")>>
  /\ KeysOf(FixedEntries(tree, first)) = <<"in", "name", "value">>

\* A node the decoder has no value for: an alias or bad value, a real whose
\* text is no float, a mapping with a key that is not a string, or an array
\* or mapping that holds such a node.
RECURSIVE Undecodable(_)
Undecodable(node) ==
  CASE node.k \in {"Alias", "BadValue"} -> TRUE
    [] node.k = "Real" -> ~parse_f64(node.r).ok
    [] node.k = "Array" -> \E i \in 1..Len(node.a) : Undecodable(node.a[i])
    [] node.k = "Hash" ->
         \E i \in 1..Len(node.h) :
           node.h[i].key.k # "String" \/ Undecodable(node.h[i].val)
    [] OTHER -> FALSE

\* The value has the shape of the node: scalar for scalar, the elements of
\* an array one for one and in order, the entries of a mapping key for key.
RECURSIVE SameShape(_, _)
SameShape(node, value) ==
  CASE node.k = "Null" -> value = AnyNull
    [] node.k = "Boolean" -> value = AnyBoolean(node.b)
    [] node.k = "Integer" -> value = AnyInteger(node.i)
    [] node.k = "String" -> value = AnyString(node.s)
    [] node.k = "Real" -> value = AnyFloat(parse_f64(node.r).v)
    [] node.k = "Array" ->
         /\ value.k = "Array"
         /\ Len(value.a) = Len(node.a)
         /\ \A i \in 1..Len(node.a) : SameShape(node.a[i], value.a[i])
    [] node.k = "Hash" ->
         /\ value.k = "Object"
         /\ DOMAIN value.o = {node.h[i].key.s : i \in 1..Len(node.h)}
         /\ \A i \in 1..Len(node.h) : SameShape(node.h[i].val, value.o[node.h[i].key.s])
    [] OTHER -> FALSE

\* C19: decoding a YAML node to a Dynamic Value gives an error exactly when
\* the node holds, at any depth, an alias, a bad value, a mapping key that
\* is not a string or a real whose text is no float; otherwise it gives a
\* value of the node's shape, the elements of arrays in their order.
C19_YamlDecodeErrors ==
  (pc = "loaded" /\ format = "yaml" /\ entity = "AnyValue") =>
    /\ loaded.ok <=> ~Undecodable(raw)
    /\ loaded.ok => SameShape(raw, loaded.v)
    /\ ~loaded.ok => DOMAIN loaded = {"ok", "err"}

\* An array that holds a sound element and, two levels down, a real that
\* is no float has been decoded, to an error.
C19_Witness ==
  /\ pc = "loaded"
  /\ format = "yaml"
  /\ entity = "AnyValue"
  /\ raw = YArray(<<YHash(<<YEntry(YString("k"), YReal("abc"))>>), YInteger(2)>>)
  /\ ~loaded.ok

\* Every map of the tree has its keys in ascending order.
RECURSIVE KeysAscending(_)
KeysAscending(t) ==
  CASE t.k = "Map" ->
         /\ \A i, j \in 1..Len(t.m) : i < j => StrLess(t.m[i].key, t.m[j].key)
         /\ \A i \in 1..Len(t.m) : KeysAscending(t.m[i].val)
    [] t.k = "Seq" -> \A i \in 1..Len(t.a) : KeysAscending(t.a[i])
    [] OTHER -> TRUE

\* C20: the tree of a Dynamic Value has the entries of every object, at any
\* depth, in ascending key order, and is the same tree whatever order the
\* value's maps hand out their entries in.
C20_DynamicValueCanonical ==
  (pc = "serialized" /\ entity = "AnyValue") =>
    /\ KeysAscending(tree)
    /\ \A seed \in HashSeeds : serialize_AnyValue(first, seed) = tree

\* An object holding an object and an array of objects has been serialised.
C20_Witness ==
  /\ pc = "serialized"
  /\ entity = "AnyValue"
  /\ first.k = "Object"
  /\ DOMAIN first.o = {"a", "b"}
  /\ KeysOf(tree.m) = <<"a", "b">>
  /\ KeysOf(tree.m[2].val.m) = <<"j", "k">>
  /\ KeysOf(tree.m[1].val.a[1].m) = <<"y", "z">>

\* C21: the bytes of a payload are the bytes of its string; the string is
\* the stored text of a Raw-String payload, empty for an Empty payload and
\* the compact JSON text of the node of a Structured payload; only a
\* Structured payload gives a node.
C21_PayloadRenderings ==
  pc = "rendered" =>
    LET payload == loaded.v.payload.v
    IN /\ verdict.bytes = verdict.string
       /\ payload.payload = "String" => verdict.string = payload.s /\ verdict.json = None
       /\ payload.payload = "Empty" => verdict.string = "" /\ verdict.json = None
       /\ payload.payload = "Json" =>
            /\ verdict.string = Value_to_string(payload.json)
            /\ verdict.json = Some(payload.json)

\* An array read from a JSON document has been rendered, to its compact text.
C21_Witness ==
  /\ pc = "rendered"
  /\ loaded.v.payload.v = JsonPayload(JArray(<<JPosInt(2), JString("a")>>))
  /\ verdict.string = "[2,\"a\"]"
  /\ verdict.bytes = "[2,\"a\"]"

\* An Empty payload has been rendered.
C21_WitnessEmpty ==
  /\ pc = "rendered"
  /\ loaded.v.payload.v = EmptyPayload
  /\ verdict.string = ""

\* The list field is not written at the site.
Absent(where, field) == ~yaml_hash_get(SiteHash(where), field).some

\* C22: a parameters, successActions, failureActions or dependsOn list that
\* the document leaves out is loaded as the empty sequence and is no reason
\* for the load to fail: a load that fails has one of these lists written.
C22_AbsentListIsEmpty ==
  LoadedWorkflow =>
    /\ loaded.ok =>
          /\ \A site \in ListSites :
                Absent(site[1], site[2]) => SiteLoaded(site) = <<>>
          /\ Absent("workflow", "dependsOn") => loaded.v.depends_on = <<>>
    /\ ~loaded.ok => \E site \in ListSites : ~Absent(site[1], site[2])

\* A workflow that writes none of the lists has been loaded.
C22_Witness ==
  /\ LoadedWorkflow
  /\ \A site \in ListSites : Absent(site[1], site[2])
  /\ Absent("workflow", "dependsOn")
  /\ loaded.ok
  /\ loaded.v.depends_on = <<>>
  /\ loaded.v.steps[1].parameters = <<>>

\* A dependsOn list has been loaded, its scalars as texts.
C22_WitnessDependsOn ==
  /\ LoadedWorkflow
  /\ loaded.ok
  /\ loaded.v.depends_on = <<"v", "2">>

\* What kind of value a node is, in either format.
NodeKind(node) ==
  CASE node.k = "String" -> "string"
    [] node.k \in {"Boolean", "Bool"} -> "boolean"
    [] node.k \in {"Integer", "Real", "Number"} -> "number"
    [] OTHER -> "other"

\* The text a number is written as.
NumberText(node) ==
  CASE node.k = "Integer" -> ToString(node.i)
    [] node.k = "Real" -> node.r
    [] OTHER -> number_to_string(node.n)

\* The Parameter document in raw without its `in` entry, loaded.
LoadedWithoutIn ==
  IF format = "yaml"
  THEN ParameterObject_try_from_yaml(SelectSeq(raw.h, LAMBDA e : e.key # YString("in")))
  ELSE ParameterObject_try_from_json(
         JObject([key \in DOMAIN raw.o \ {"in"} |-> raw.o[key]]))

LoadedParameter == pc = "loaded" /\ entity = "Parameter" /\ raw.k \in {"Hash", "Object"}

\* C23: the optional string `in` of a Parameter is loaded as the text of a
\* string, as the textual form of a number or a boolean, and as absent when
\* the key is missing or its value is of any other kind, in JSON and in
\* YAML alike; whatever `in` holds, it does not make the load fail.
C23_OptionalStringLookup ==
  LoadedParameter =>
    /\ loaded.ok = LoadedWithoutIn.ok
    /\ loaded.ok =>
          IF "in" \notin RawKeys THEN loaded.v.in = None
          ELSE LET node == RawAt("in")
               IN CASE NodeKind(node) = "string" -> loaded.v.in = Some(node.s)
                    [] NodeKind(node) = "boolean" ->
                         loaded.v.in = Some(bool_to_string(node.b))
                    [] NodeKind(node) = "number" -> loaded.v.in = Some(NumberText(node))
                    [] OTHER -> loaded.v.in = None

\* A JSON Parameter whose `in` is a number has been loaded, and a YAML one
\* whose `in` is a mapping.
C23_Witness ==
  /\ LoadedParameter
  /\ loaded.ok
  /\ "in" \in RawKeys
  /\ \/ format = "json" /\ RawAt("in") = JFloat(Fin(15)) /\ loaded.v.in = Some("1.5")
     \/ format = "yaml" /\ RawAt("in").k = "Hash" /\ loaded.v.in = None

LoadedFailure == pc = "loaded" /\ entity = "Failure" /\ raw.k \in {"Hash", "Object"}

\* The node is a number: an integer, or a real whose text is a float.
Numeric(node) ==
  \/ node.k \in {"Integer", "Number"}
  \/ node.k = "Real" /\ parse_f64(node.r).ok

Integral(node) ==
  \/ node.k = "Integer"
  \/ node.k = "Number" /\ node.n.t \in {"PosInt", "NegInt"}

\* The value of an integer node, and of a real one.
IntegerOf(node) ==
  IF node.k = "Integer" THEN node.i
  ELSE IF node.n.t = "PosInt" THEN node.n.u ELSE node.n.i

RealOf(node) == IF node.k = "Real" THEN parse_f64(node.r).v ELSE node.n.f

\* A finite real without its fraction.
Truncated(f) == IF f.m < 0 THEN 0 - ((0 - f.m) \div 10) ELSE f.m \div 10

\* C24: a Failure Action loads whatever its retry fields hold; retryAfter
\* written as an integer is the float of that value; retryLimit written as
\* an integer is that value, and written as a real is the real truncated;
\* a field that is missing or holds no number is absent.
C24_RetryFields ==
  LoadedFailure =>
    /\ loaded.ok
    /\ IF "retryAfter" \in RawKeys /\ Numeric(RawAt("retryAfter"))
       THEN IF Integral(RawAt("retryAfter"))
            THEN loaded.v.retry_after = Some(Fin(10 * IntegerOf(RawAt("retryAfter"))))
            ELSE loaded.v.retry_after = Some(RealOf(RawAt("retryAfter")))
       ELSE loaded.v.retry_after = None
    /\ IF "retryLimit" \in RawKeys /\ Numeric(RawAt("retryLimit"))
       THEN IF Integral(RawAt("retryLimit"))
            THEN loaded.v.retry_limit = Some(IntegerOf(RawAt("retryLimit")))
            ELSE loaded.v.retry_limit = Some(Truncated(RealOf(RawAt("retryLimit"))))
       ELSE loaded.v.retry_limit = None

\* The same, for every document but a JSON one whose retryLimit is an
\* integer above the largest i64.
C24_RetryFieldsWithinI64 ==
  (/\ LoadedFailure
   /\ ~(/\ format = "json"
        /\ "retryLimit" \in RawKeys
        /\ Integral(RawAt("retryLimit"))
        /\ IntegerOf(RawAt("retryLimit")) > I64_MAX)) => C24_RetryFields

\* C28: a retryLimit written in JSON as a non-negative integer, anywhere in
\* the u64 range, is loaded as that integer and is not negative.
C28_RetryLimitNonNegative ==
  (/\ LoadedFailure
   /\ format = "json"
   /\ "retryLimit" \in RawKeys
   /\ RawAt("retryLimit").k = "Number"
   /\ RawAt("retryLimit").n.t = "PosInt") =>
    /\ loaded.ok
    /\ loaded.v.retry_limit = Some(RawAt("retryLimit").n.u)
    /\ loaded.v.retry_limit.v >= 0

\* A Criterion document with a string condition has been loaded.
LoadedCriterion ==
  /\ pc = "loaded"
  /\ entity = "CriterionDoc"
  /\ raw.k = "Object"
  /\ "condition" \in DOMAIN raw.o

\* The node is an object whose `type` and `version` are strings.
ExpressionTypeObject(node) ==
  /\ node.k = "Object"
  /\ {"type", "version"} \subseteq DOMAIN node.o
  /\ node.o["type"].k = "String"
  /\ node.o["version"].k = "String"

\* C25: a Criterion without `type` has no type; with a string `type` it
\* has the short name; with any other `type` it has the expression type if
\* that value is an object with strings `type` and `version`, and else the
\* Criterion does not load.
C25_CriterionType ==
  LoadedCriterion =>
    IF "type" \notin DOMAIN raw.o THEN loaded.ok /\ loaded.v.type = None
    ELSE LET node == raw.o["type"]
         IN IF node.k = "String"
            THEN loaded.ok /\ loaded.v.type = Some(First(node.s))
            ELSE IF ExpressionTypeObject(node)
            THEN /\ loaded.ok
                 /\ loaded.v.type.some
                 /\ loaded.v.type.v.side = "Second"
                 /\ loaded.v.type.v.b.type = node.o["type"].s
                 /\ loaded.v.type.v.b.version = node.o["version"].s
            ELSE ~loaded.ok

\* A Criterion whose `type` is an object without a version has been
\* refused.
C25_Witness ==
  /\ LoadedCriterion
  /\ "type" \in DOMAIN raw.o
  /\ raw.o["type"].k = "Object"
  /\ "type" \in DOMAIN raw.o["type"].o
  /\ "version" \notin DOMAIN raw.o["type"].o
  /\ ~loaded.ok

\* A Criterion with an expression type has been loaded.
C25_WitnessExpressionType ==
  /\ LoadedCriterion
  /\ loaded.ok
  /\ loaded.v.type.some
  /\ loaded.v.type.v.side = "Second"

\* C26: the length a Step's serialiser announces when it opens the map is
\* the number of entries it writes.
C26_StepLengthAnnounced ==
  (pc = "serialized" /\ entity = "Step") => tree.len = Len(tree.m)

\* The same, for a Step that has both parameters and outputs or neither.
C26_StepLengthWhenBothOrNeither ==
  (/\ pc = "serialized"
   /\ entity = "Step"
   /\ (Len(first.parameters) = 0) = (DOMAIN first.outputs = {})) => tree.len = Len(tree.m)

\* A literal is no String that begins with $; an expression begins with $.
SigilKept(value) ==
  IF value.side = "First"
  THEN ~(value.a.k = "String" /\ starts_with(value.a.s, "$"))
  ELSE starts_with(value.b, "$")

\* C27: the value of a Parameter that a loader has built is, as a literal,
\* never a String beginning with $ and, as an expression, always begins
\* with $; so a model that comes back equal from a serialised tree is one
\* of these.
C27_LoadedValueKeepsSigil ==
  (pc = "loaded" /\ entity = "Parameter" /\ format \in {"yaml", "json"} /\ loaded.ok) =>
    /\ SigilKept(loaded.v.value)
    /\ (first # NoValue /\ ParameterEq(loaded.v, first)) => SigilKept(first.value)

\* A Parameter built with the literal String "$a" has been serialised and
\* loaded again, and has come back as the expression.
C27_Witness ==
  /\ pc = "loaded"
  /\ entity = "Parameter"
  /\ first # NoValue
  /\ first.value = First(AnyString("$a"))
  /\ loaded.ok
  /\ loaded.v.value = Second("$a")

\* A Parameter has come back equal from its serialised tree.
C27_WitnessReproduced ==
  /\ pc = "loaded"
  /\ entity = "Parameter"
  /\ first # NoValue
  /\ loaded.ok
  /\ ParameterEq(loaded.v, first)
  /\ first.value = Second("$a")

\* The value holds a float that is not a number.
RECURSIVE HoldsNaN(_)
HoldsNaN(x) ==
  CASE x.k = "Float" -> x.f.cls = "nan"
    [] x.k = "Array" -> \E i \in 1..Len(x.a) : HoldsNaN(x.a[i])
    [] x.k = "Object" -> \E key \in DOMAIN x.o : HoldsNaN(x.o[key])
    [] OTHER -> FALSE

\* A body without payload differs from one with a payload; equality is
\* symmetric and transitive.
EqualityLaws ==
  /\ (loaded.v.payload.some # verdict.other.payload.some) => ~verdict.equal
  /\ verdict.equal = verdict.back
  /\ verdict.equal =>
       \A third \in RequestBodyModels :
         RequestBody_eq(verdict.other, third) => RequestBody_eq(loaded.v, third)

\* C29: a Request Body without payload is never equal to one with a
\* payload, and equality of Request Bodies is reflexive, symmetric and
\* transitive.
C29_EqualityIsEquivalence ==
  pc = "compared" => (EqualityLaws /\ verdict.same)

\* C29, amended: a Request Body without payload is never equal to one with
\* a payload; equality is symmetric and transitive, and a body is equal to
\* itself exactly when no extension of it holds a NaN.
C29_EqualityUpToNaN ==
  pc = "compared" =>
    /\ EqualityLaws
    /\ verdict.same = ~(\E key \in DOMAIN loaded.v.extensions :
                           HoldsNaN(loaded.v.extensions[key]))

\* A body without payload has been compared with one whose payload is
\* Empty and that is the same otherwise, and found different.
C29_Witness ==
  /\ pc = "compared"
  /\ ~loaded.v.payload.some
  /\ verdict.other = [loaded.v EXCEPT !.payload = Some(EmptyPayload)]
  /\ ~verdict.equal

\* Two bodies with different payloads of the same bytes have been found equal.
C29_WitnessEqual ==
  /\ pc = "compared"
  /\ loaded.v.payload = Some(EmptyPayload)
  /\ verdict.other.payload = Some(StringPayload(""))
  /\ verdict.equal

\* C30: a payload serialised inside a Request Body gives the value that
\* serialising the payload by itself gives, for each of the three payloads.
C30_PayloadSerialisedAlike ==
  pc = "payload_serialized" => verdict.inside = verdict.direct

\* The same, for the Raw-String and the Structured payload.
C30_AlikeUnlessEmpty ==
  (pc = "payload_serialized" /\ loaded.v.payload.v.payload # "Empty") =>
    verdict.inside = verdict.direct

====
